---- MODULE Spec2Model ----
(***************************************************************************)
(* Window visibility control of rua (apps/rua/src-tauri): the /toggle and  *)
(* /health handlers of the control server, the Linux show_window and       *)
(* hide_window orchestrator, the display-server detector, the Hyprland     *)
(* workspace controller and the X11 window manager.                        *)
(*                                                                         *)
(* Every handler is one action.  The outcome of each external call (a      *)
(* hyprctl subprocess, an X11 request, a call on the Tauri window) is an   *)
(* input of the action; a handler is an operator that yields the set of    *)
(* its possible runs, one per combination of outcomes of the calls that    *)
(* run actually makes.  A run carries the trace of the external calls in   *)
(* the order the code issues them.                                         *)
(***************************************************************************)
EXTENDS Integers, Sequences, FiniteSets

(* Number of Hyprland workspaces of the modelled session. *)
NWs == 2

Workspaces == 1..NWs

(* http::StatusCode values used by the handlers. *)
OK == 200
NOT_FOUND == 404
INTERNAL_SERVER_ERROR == 500
SERVICE_UNAVAILABLE == 503

(* Option<T>: None is the empty sequence, Some(x) the one-element one. *)
None == <<>>
Some(x) == <<x>>

(* One external call and whether it succeeded. *)
Call(name, ok) == [call |-> name, ok |-> ok]

-----------------------------------------------------------------------------
(* State of the environment variables as env::var sees them. *)
EnvVarStates == {"unset", "not_unicode", "empty", "set"}

(* hyprctl on this machine: not installed (the spawn fails), installed but *)
(* exiting non-zero (no compositor to talk to), or working.                *)
HyprctlStates == {"missing", "fails", "ok"}

VARIABLES
    hyprSig,     \* HYPRLAND_INSTANCE_SIGNATURE of the process
    display,     \* DISPLAY of the process
    hyprctl,     \* what running hyprctl does on this machine
    activeWs,    \* the compositor's active workspace id
    winWs,       \* Option: workspace id of the client of class "rua"
    appHandle,   \* AppState.app_handle holds Some(AppHandle)
    visible,     \* the Tauri window's visibility flag (is_visible)
    cur,         \* the last request handled: its inputs, calls and answer
    prev,        \* summary of the request handled before cur
    last,        \* the last call of a single function: its inputs and result
    server,      \* the /toggle requests in progress and the app-handle mutex
    watcher,     \* WATCHER_STATE of the file watcher
    extensions   \* the extensions folder: registry.json and the extension directories

vars == <<hyprSig, display, hyprctl, activeWs, winWs, appHandle, visible, cur, prev, last, server, watcher, extensions>>

-----------------------------------------------------------------------------
(* Text scanning. Strings are sequences of characters.                     *)

IsPrefixAt(s, pat, i) ==
    /\ i + Len(pat) - 1 <= Len(s)
    /\ \A k \in 1..Len(pat) : s[i + k - 1] = pat[k]

(* str::contains *)
Contains(s, pat) == \E i \in 1..(Len(s) + 1) : IsPrefixAt(s, pat, i)

str_Error == <<"E", "r", "r", "o", "r">>
str_error == <<"e", "r", "r", "o", "r">>

(* What a hyprctl dispatch may print on standard output. *)
Stdouts ==
    { <<"o", "k">>,
      <<"e", "r", "r", "o", "r">>,
      <<"x", "E", "r", "r", "o", "r">>,
      <<"E", "R", "R", "O", "R">> }

-----------------------------------------------------------------------------
(* Display server detector (linux/display_server.rs).                      *)

is_hyprctl_available(hc) == hc = "ok"

(* env::var(name).is_ok(): the variable is present and valid unicode. *)
env_var_is_ok(v) == v \in {"empty", "set"}

detect_display_server_default_x11(sig, hc, disp) ==
    IF env_var_is_ok(sig) THEN "Hyprland"
    ELSE IF is_hyprctl_available(hc) THEN "Hyprland"
    ELSE "X11"

detect_display_server(sig, hc, disp) ==
    IF env_var_is_ok(sig) THEN "Hyprland"
    ELSE IF is_hyprctl_available(hc) THEN "Hyprland"
    ELSE IF disp = "set" THEN "X11"
    ELSE "Unknown"

(* The external calls detect_display_server makes. *)
detect_trace(sig, hc) ==
    IF env_var_is_ok(sig) THEN <<>>
    ELSE << Call("hyprctl version", is_hyprctl_available(hc)) >>

-----------------------------------------------------------------------------
(* Hyprland workspace controller (linux/hyprland.rs).  A result is a       *)
(* record: ok (Ok or Err), the value, and the trace of hyprctl runs.        *)

get_active_workspace_retry(hc, active) ==
    IF hc # "ok"
    THEN { [ok |-> FALSE, id |-> 0,
            trace |-> << Call("hyprctl activeworkspace", FALSE),
                         Call("hyprctl activeworkspace", FALSE) >>] }
    ELSE { [ok |-> TRUE, id |-> active, trace |-> << Call("hyprctl activeworkspace", TRUE) >>],
           [ok |-> TRUE, id |-> active,
            trace |-> << Call("hyprctl activeworkspace", FALSE),
                         Call("hyprctl activeworkspace", TRUE) >>] }

(* Result<i64, String>: hyprctl activeworkspace -j.  The spawn fails when  *)
(* hyprctl is missing, the status check fails when it exits non-zero, and  *)
(* a working hyprctl prints the active workspace or JSON without an        *)
(* integer id.                                                             *)
get_active_workspace(hc, active) ==
    IF hc # "ok"
    THEN { [ok |-> FALSE, id |-> 0, trace |-> << Call("hyprctl activeworkspace", FALSE) >>] }
    ELSE { [ok |-> TRUE, id |-> active, trace |-> << Call("hyprctl activeworkspace", TRUE) >>],
           [ok |-> FALSE, id |-> 0, trace |-> << Call("hyprctl activeworkspace", FALSE) >>] }

(* Result<Option<i64>, String>: hyprctl clients -j, the workspace of the   *)
(* client whose class is the requested one.                                *)
get_window_workspace(hc, ws) ==
    IF hc # "ok"
    THEN { [ok |-> FALSE, ws |-> None, trace |-> << Call("hyprctl clients", FALSE) >>] }
    ELSE { [ok |-> TRUE, ws |-> ws, trace |-> << Call("hyprctl clients", TRUE) >>],
           [ok |-> FALSE, ws |-> None, trace |-> << Call("hyprctl clients", FALSE) >>] }

(* Result<bool, String>: res is "true", "false" or "err". *)
is_window_on_current_workspace(hc, active, ws) ==
    UNION { IF ~a.ok
            THEN { [res |-> "err", trace |-> a.trace] }
            ELSE { IF ~w.ok
                   THEN [res |-> "err", trace |-> a.trace \o w.trace]
                   ELSE [res |-> IF w.ws = Some(a.id) THEN "true" ELSE "false",
                         trace |-> a.trace \o w.trace]
                   : w \in get_window_workspace(hc, ws) }
            : a \in get_active_workspace(hc, active) }

(* The output scan of a dispatch: Err when stdout mentions an error. *)
stdout_reports_error(stdout) ==
    Contains(stdout, str_Error) \/ Contains(stdout, str_error)

(* What the compositor does with a dispatch on the client of class "rua":  *)
(* it answers "ok" and places the client on workspace `target`, or answers*)
(* something else and leaves it; without such a client it never answers    *)
(* "ok".                                                                   *)
dispatch_replies(ws, target) ==
    { [stdout |-> out, ws |-> IF out = <<"o", "k">> THEN Some(target) ELSE ws]
      : out \in IF ws = None THEN Stdouts \ { <<"o", "k">> } ELSE Stdouts }

(* Result<(), String>: read the active workspace, then                     *)
(* hyprctl dispatch movetoworkspacesilent <id>,class:rua.  ws is where the *)
(* client is afterwards, target the id the dispatch named (None: no        *)
(* dispatch was sent).                                                     *)
move_to_current_workspace(hc, active, ws) ==
    UNION { IF ~a.ok
            THEN { [ok |-> FALSE, ws |-> ws, target |-> None, trace |-> a.trace] }
            ELSE IF hc = "missing"
            THEN { [ok |-> FALSE, ws |-> ws, target |-> None,
                    trace |-> a.trace \o << Call("hyprctl dispatch movetoworkspacesilent", FALSE) >>] }
            ELSE { [ok |-> ~stdout_reports_error(d.stdout), ws |-> d.ws, target |-> Some(a.id),
                    trace |-> a.trace \o << Call("hyprctl dispatch movetoworkspacesilent",
                                                  ~stdout_reports_error(d.stdout)) >>]
                   : d \in dispatch_replies(ws, a.id) }
            : a \in get_active_workspace(hc, active) }

(* Result<(), String>: hyprctl dispatch focuswindow class:rua, judged by   *)
(* the same output scan as the move.                                       *)
focus_by_class(hc, ws) ==
    IF hc = "missing"
    THEN { [ok |-> FALSE, trace |-> << Call("hyprctl dispatch focuswindow", FALSE) >>] }
    ELSE { [ok |-> ~stdout_reports_error(d.stdout),
            trace |-> << Call("hyprctl dispatch focuswindow", ~stdout_reports_error(d.stdout)) >>]
           : d \in dispatch_replies(ws, 0) }

-----------------------------------------------------------------------------
(* X11 window manager (linux/x11_window.rs).                               *)

(* RustConnection::connect(None): Some(manager) or None. *)
X11WindowManager_new(disp) ==
    IF disp = "set" THEN {TRUE, FALSE} ELSE {FALSE}

(* find_window_by_class("rua"): a window id was found, or None. *)
find_window_by_class == {TRUE, FALSE}

(* send_net_active_window: intern the atom, wait for its reply, send the   *)
(* client message to the root window, flush; each `?` returns at the first *)
(* failure.                                                                *)
send_net_active_window ==
    { [ok |-> FALSE, trace |-> << Call("x11 intern_atom", FALSE) >>],
      [ok |-> FALSE, trace |-> << Call("x11 intern_atom", TRUE),
                                  Call("x11 intern_atom reply", FALSE) >>],
      [ok |-> FALSE, trace |-> << Call("x11 intern_atom", TRUE),
                                  Call("x11 intern_atom reply", TRUE),
                                  Call("x11 send_event", FALSE) >>] }
    \cup
    { [ok |-> flushed, trace |-> << Call("x11 intern_atom", TRUE),
                                    Call("x11 intern_atom reply", TRUE),
                                    Call("x11 send_event", TRUE),
                                    Call("x11 flush", flushed) >>]
      : flushed \in BOOLEAN }

X11_show_window_configure_logged ==
    { [ok |-> FALSE, trace |-> << Call("x11 map_window", FALSE) >>] }
    \cup
    { [ok |-> FALSE, trace |-> << Call("x11 map_window", TRUE),
                                  Call("x11 configure_window", configured),
                                  Call("x11 set_input_focus", FALSE) >>]
      : configured \in BOOLEAN }
    \cup
    { [ok |-> flushed, trace |-> << Call("x11 map_window", TRUE),
                                    Call("x11 configure_window", configured),
                                    Call("x11 set_input_focus", TRUE),
                                    Call("x11 _NET_ACTIVE_WINDOW", activated),
                                    Call("x11 flush", flushed) >>]
      : configured \in BOOLEAN, activated \in BOOLEAN, flushed \in BOOLEAN }

X11_show_window_activation_fatal ==
    { [ok |-> FALSE, trace |-> << Call("x11 map_window", FALSE) >>] }
    \cup
    { [ok |-> FALSE, trace |-> << Call("x11 map_window", TRUE),
                                  Call("x11 configure_window", FALSE) >>] }
    \cup
    { [ok |-> FALSE, trace |-> << Call("x11 map_window", TRUE),
                                  Call("x11 configure_window", TRUE),
                                  Call("x11 set_input_focus", FALSE) >>] }
    \cup
    { [ok |-> activated /\ flushed,
       trace |-> << Call("x11 map_window", TRUE),
                    Call("x11 configure_window", TRUE),
                    Call("x11 set_input_focus", TRUE),
                    Call("x11 _NET_ACTIVE_WINDOW", activated),
                    Call("x11 flush", flushed) >>]
      : activated \in BOOLEAN, flushed \in BOOLEAN }

(* The requests of X11 show_window in order; each `?` returns at the first *)
(* failure, the _NET_ACTIVE_WINDOW message is only logged.                 *)
X11_show_window ==
    { [ok |-> FALSE, trace |-> << Call("x11 map_window", FALSE) >>] }
    \cup
    { [ok |-> FALSE, trace |-> << Call("x11 map_window", TRUE),
                                  Call("x11 configure_window", FALSE) >>] }
    \cup
    { [ok |-> FALSE, trace |-> << Call("x11 map_window", TRUE),
                                  Call("x11 configure_window", TRUE),
                                  Call("x11 set_input_focus", FALSE) >>] }
    \cup
    { [ok |-> flushed, trace |-> << Call("x11 map_window", TRUE),
                                    Call("x11 configure_window", TRUE),
                                    Call("x11 set_input_focus", TRUE),
                                    Call("x11 _NET_ACTIVE_WINDOW", activated),
                                    Call("x11 flush", flushed) >>]
      : activated \in { r.ok : r \in send_net_active_window }, flushed \in BOOLEAN }

X11_hide_window_flush_ignored ==
    { [ok |-> FALSE, trace |-> << Call("x11 unmap_window", FALSE) >>] }
    \cup
    { [ok |-> TRUE, trace |-> << Call("x11 unmap_window", TRUE),
                                 Call("x11 flush", flushed) >>]
      : flushed \in BOOLEAN }

(* X11 hide_window: unmap, then flush. *)
X11_hide_window ==
    { [ok |-> FALSE, trace |-> << Call("x11 unmap_window", FALSE) >>] }
    \cup
    { [ok |-> flushed, trace |-> << Call("x11 unmap_window", TRUE),
                                    Call("x11 flush", flushed) >>]
      : flushed \in BOOLEAN }

(* The X11 branch of the orchestrator's show_window: connect, find, show. *)
x11_show_strategy(disp) ==
    UNION { IF ~connected
            THEN { << Call("x11 connect", FALSE) >> }
            ELSE UNION { IF ~found
                         THEN { << Call("x11 connect", TRUE), Call("x11 find_window_by_class", FALSE) >> }
                         ELSE { << Call("x11 connect", TRUE), Call("x11 find_window_by_class", TRUE) >>
                                \o r.trace : r \in X11_show_window }
                         : found \in find_window_by_class }
            : connected \in X11WindowManager_new(disp) }

(* The X11 branch of the orchestrator's hide_window: connect, find, hide. *)
x11_hide_strategy(disp) ==
    UNION { IF ~connected
            THEN { << Call("x11 connect", FALSE) >> }
            ELSE UNION { IF ~found
                         THEN { << Call("x11 connect", TRUE), Call("x11 find_window_by_class", FALSE) >> }
                         ELSE { << Call("x11 connect", TRUE), Call("x11 find_window_by_class", TRUE) >>
                                \o r.trace : r \in X11_hide_window }
                         : found \in find_window_by_class }
            : connected \in X11WindowManager_new(disp) }

-----------------------------------------------------------------------------
(* What a handler run yields: the answer, the calls made, and the state    *)
(* the calls leave behind.  status is 0 for the orchestrator's functions,  *)
(* which return a Result and no HTTP status.                               *)
Run(status, success, message, trace, vis, ws, active) ==
    [status |-> status, success |-> success, message |-> message,
     trace |-> trace, visible |-> vis, winWs |-> ws, activeWs |-> active]

-----------------------------------------------------------------------------
(* The Linux orchestrator (linux/control_server.rs).                       *)

(* show_window's match with the Hyprland arm running on into the X11 arm. *)
show_window_strategy_both(ds, hc, disp, active, ws) ==
    IF ds = "Hyprland"
    THEN UNION { { [trace |-> m.trace \o t, ws |-> m.ws] : t \in x11_show_strategy(disp) }
                 : m \in move_to_current_workspace(hc, active, ws) }
    ELSE IF ds = "X11"
    THEN { [trace |-> t, ws |-> ws] : t \in x11_show_strategy(disp) }
    ELSE { [trace |-> <<>>, ws |-> ws] }

(* show_window, the match on the display server: what the strategy did.    *)
show_window_strategy(ds, hc, disp, active, ws) ==
    IF ds = "Hyprland"
    THEN { [trace |-> m.trace, ws |-> m.ws] : m \in move_to_current_workspace(hc, active, ws) }
    ELSE IF ds = "X11"
    THEN { [trace |-> t, ws |-> ws] : t \in x11_show_strategy(disp) }
    ELSE { [trace |-> <<>>, ws |-> ws] }

(* show_window's tail bailing on a failed set_focus as well. *)
show_window_generic_focus_bails(trace, vis, ws, active) ==
    { Run(0, FALSE, "Failed to show window",
          trace \o << Call("center", centered), Call("show", FALSE) >>,
          vis, ws, active)
      : centered \in BOOLEAN }
    \cup
    { Run(0, FALSE, "Failed to focus window",
          trace \o << Call("center", centered), Call("show", TRUE), Call("set_focus", FALSE) >>,
          TRUE, ws, active)
      : centered \in BOOLEAN }
    \cup
    { Run(0, TRUE, "Window shown",
          trace \o << Call("center", centered), Call("show", TRUE),
                      Call("set_focus", TRUE), Call("emit rua://window-shown", emitted) >>,
          TRUE, ws, active)
      : centered \in BOOLEAN, emitted \in BOOLEAN }

(* show_window after the match: center, show, set_focus and the event on   *)
(* the Tauri window; only a failed show bails.                             *)
show_window_generic(trace, vis, ws, active) ==
    { Run(0, FALSE, "Failed to show window",
          trace \o << Call("center", centered), Call("show", FALSE) >>,
          vis, ws, active)
      : centered \in BOOLEAN }
    \cup
    { Run(0, TRUE, "Window shown",
          trace \o << Call("center", centered), Call("show", TRUE),
                      Call("set_focus", focused), Call("emit rua://window-shown", emitted) >>,
          TRUE, ws, active)
      : centered \in BOOLEAN, focused \in BOOLEAN, emitted \in BOOLEAN }

show_window(sig, hc, disp, active, ws, vis) ==
    UNION { show_window_generic(detect_trace(sig, hc) \o s.trace, vis, s.ws, active)
            : s \in show_window_strategy(detect_display_server(sig, hc, disp), hc, disp, active, ws) }

(* The Hyprland branch of hide_window.  `later` is the workspace that is   *)
(* active when move_to_current_workspace reads it again: the user may have *)
(* switched since the check.  A run with done = TRUE has returned; one     *)
(* with done = FALSE falls through to the hide at the end of hide_window.  *)
hide_window_hyprland(hc, active, ws, vis) ==
    UNION {
      IF c.res = "true"
      THEN { [done |-> TRUE,
              run |-> Run(0, FALSE, "Failed to hide window",
                          c.trace \o << Call("hide", FALSE) >>, vis, ws, active)] }
           \cup
           { [done |-> TRUE,
              run |-> Run(0, TRUE, "Window hidden",
                          c.trace \o << Call("hide", TRUE), Call("emit rua://window-hidden", emitted) >>,
                          FALSE, ws, active)]
             : emitted \in BOOLEAN }
      ELSE IF c.res = "false"
      THEN UNION { UNION { UNION {
               { [done |-> TRUE,
                  run |-> Run(0, TRUE, "Window moved to current workspace",
                              c.trace \o m.trace
                                \o << Call("center", centered), Call("set_focus", focused) >>
                                \o f.trace
                                \o << Call("emit rua://window-shown", emitted) >>,
                              vis, m.ws, later)]
                 : centered \in BOOLEAN, focused \in BOOLEAN, emitted \in BOOLEAN }
               : f \in focus_by_class(hc, m.ws) }
             : m \in move_to_current_workspace(hc, later, ws) }
             : later \in Workspaces }
      ELSE { [done |-> FALSE, run |-> Run(0, FALSE, "", c.trace, vis, ws, active)] }
      : c \in is_window_on_current_workspace(hc, active, ws) }

(* hide_window, the match on the display server. *)
hide_window_strategy(ds, hc, disp, active, ws, vis) ==
    IF ds = "Hyprland"
    THEN hide_window_hyprland(hc, active, ws, vis)
    ELSE IF ds = "X11"
    THEN { [done |-> FALSE, run |-> Run(0, FALSE, "", t, vis, ws, active)]
           : t \in x11_hide_strategy(disp) }
    ELSE { [done |-> FALSE, run |-> Run(0, FALSE, "", <<>>, vis, ws, active)] }

hide_window_generic_emits_on_failure(trace, vis, ws, active) ==
    { Run(0, FALSE, "Failed to hide window",
          trace \o << Call("hide", FALSE), Call("emit rua://window-hidden", emitted) >>,
          vis, ws, active)
      : emitted \in BOOLEAN }
    \cup
    { Run(0, TRUE, "Window hidden",
          trace \o << Call("hide", TRUE), Call("emit rua://window-hidden", emitted) >>,
          FALSE, ws, active)
      : emitted \in BOOLEAN }

(* hide_window after the match: window.hide() and the event. *)
hide_window_generic(trace, vis, ws, active) ==
    { Run(0, FALSE, "Failed to hide window",
          trace \o << Call("hide", FALSE) >>, vis, ws, active) }
    \cup
    { Run(0, TRUE, "Window hidden",
          trace \o << Call("hide", TRUE), Call("emit rua://window-hidden", emitted) >>,
          FALSE, ws, active)
      : emitted \in BOOLEAN }

hide_window(sig, hc, disp, active, ws, vis) ==
    UNION { IF s.done
            THEN { [s.run EXCEPT !.trace = detect_trace(sig, hc) \o @] }
            ELSE hide_window_generic(detect_trace(sig, hc) \o s.run.trace, vis, ws, active)
            : s \in hide_window_strategy(detect_display_server(sig, hc, disp), hc, disp, active, ws, vis) }

-----------------------------------------------------------------------------
(* The control server (control_server.rs).                                 *)

(* The hiding branch emitting the event before it calls window.hide(). *)
toggle_visible_here_emit_first(trace, ws, vis, active) ==
    { Run(INTERNAL_SERVER_ERROR, FALSE, "Failed to hide window",
          trace \o << Call("emit rua://window-hidden", emitted), Call("hide", FALSE) >>,
          vis, ws, active)
      : emitted \in BOOLEAN }
    \cup
    { Run(OK, TRUE, "Window hidden",
          trace \o << Call("emit rua://window-hidden", emitted), Call("hide", TRUE) >>,
          FALSE, ws, active)
      : emitted \in BOOLEAN }

(* toggle_window, visible and on the current workspace: hide it. *)
toggle_visible_here(trace, ws, vis, active) ==
    { Run(INTERNAL_SERVER_ERROR, FALSE, "Failed to hide window",
          trace \o << Call("hide", FALSE) >>, vis, ws, active) }
    \cup
    { Run(OK, TRUE, "Window hidden",
          trace \o << Call("hide", TRUE), Call("emit rua://window-hidden", emitted) >>,
          FALSE, ws, active)
      : emitted \in BOOLEAN }

(* The fetching branch failing the request when the move fails. *)
toggle_visible_elsewhere_move_fatal(trace, hc, ws, vis) ==
    UNION { UNION {
      IF ~m.ok
      THEN { Run(INTERNAL_SERVER_ERROR, FALSE, "Failed to move window",
                 trace \o m.trace, vis, m.ws, later) }
      ELSE { Run(OK, TRUE, "Window moved to current workspace",
                 trace \o m.trace
                   \o << Call("center", centered), Call("set_focus", focused),
                         Call("emit rua://window-shown", emitted) >>,
                 vis, m.ws, later)
             : centered \in BOOLEAN, focused \in BOOLEAN, emitted \in BOOLEAN }
      : m \in move_to_current_workspace(hc, later, ws) }
      : later \in Workspaces }

(* toggle_window, visible but on another workspace: fetch it.  `later` is  *)
(* the workspace active when move_to_current_workspace reads it again: the *)
(* user may have switched since the check.                                 *)
toggle_visible_elsewhere(trace, hc, ws, vis) ==
    UNION { UNION {
      { Run(OK, TRUE, "Window moved to current workspace",
            trace \o m.trace
              \o << Call("center", centered), Call("set_focus", focused),
                    Call("emit rua://window-shown", emitted) >>,
            vis, m.ws, later)
        : centered \in BOOLEAN, focused \in BOOLEAN, emitted \in BOOLEAN }
      : m \in move_to_current_workspace(hc, later, ws) }
      : later \in Workspaces }

(* The fallback answering "Window hidden" without calling window.hide(). *)
toggle_visible_unchecked_no_hide(trace, ws, vis, active) ==
    { Run(OK, TRUE, "Window hidden",
          trace \o << Call("emit rua://window-hidden", emitted) >>,
          vis, ws, active)
      : emitted \in BOOLEAN }

(* toggle_window, visible and the workspace check failed: hide it. *)
toggle_visible_unchecked(trace, ws, vis, active) ==
    { Run(INTERNAL_SERVER_ERROR, FALSE, "Failed to hide window",
          trace \o << Call("hide", FALSE) >>, vis, ws, active) }
    \cup
    { Run(OK, TRUE, "Window hidden",
          trace \o << Call("hide", TRUE), Call("emit rua://window-hidden", emitted) >>,
          FALSE, ws, active)
      : emitted \in BOOLEAN }

(* toggle_window on a visible window, Linux build: the workspace check     *)
(* decides between hiding and fetching the window.                         *)
toggle_visible(hc, active, ws, vis, head) ==
    UNION {
      IF c.res = "true"
      THEN toggle_visible_here(head \o c.trace, ws, vis, active)
      ELSE IF c.res = "false"
      THEN toggle_visible_elsewhere(head \o c.trace, hc, ws, vis)
      ELSE toggle_visible_unchecked(head \o c.trace, ws, vis, active)
      : c \in is_window_on_current_workspace(hc, active, ws) }

(* The hidden branch failing the request when the move fails. *)
toggle_hidden_move_fatal(hc, active, ws, vis, head) ==
    UNION {
      IF ~m.ok
      THEN { Run(INTERNAL_SERVER_ERROR, FALSE, "Failed to move window",
                 head \o m.trace, vis, m.ws, active) }
      ELSE { Run(INTERNAL_SERVER_ERROR, FALSE, "Failed to show window",
                 head \o m.trace \o << Call("center", centered), Call("show", FALSE) >>,
                 vis, m.ws, active)
             : centered \in BOOLEAN }
           \cup
           { Run(OK, TRUE, "Window shown",
                 head \o m.trace
                   \o << Call("center", centered), Call("show", TRUE),
                         Call("set_focus", focused), Call("emit rua://window-shown", emitted) >>,
                 TRUE, m.ws, active)
             : centered \in BOOLEAN, focused \in BOOLEAN, emitted \in BOOLEAN }
      : m \in move_to_current_workspace(hc, active, ws) }

(* toggle_window on a hidden window: move, center, show, set_focus, event. *)
toggle_hidden(hc, active, ws, vis, head) ==
    UNION {
      { Run(INTERNAL_SERVER_ERROR, FALSE, "Failed to show window",
            head \o m.trace \o << Call("center", centered), Call("show", FALSE) >>,
            vis, m.ws, active)
        : centered \in BOOLEAN }
      \cup
      { Run(OK, TRUE, "Window shown",
            head \o m.trace
              \o << Call("center", centered), Call("show", TRUE),
                    Call("set_focus", focused), Call("emit rua://window-shown", emitted) >>,
            TRUE, m.ws, active)
        : centered \in BOOLEAN, focused \in BOOLEAN, emitted \in BOOLEAN }
      : m \in move_to_current_workspace(hc, active, ws) }

(* POST /toggle.  app: the mutex holds Some(AppHandle); found: the "main"  *)
(* webview window exists; visOk: is_visible() returned Ok.                 *)
toggle_window(app, found, visOk, hc, active, ws, vis) ==
    IF ~app
    THEN { Run(SERVICE_UNAVAILABLE, FALSE, "App handle not available", <<>>, vis, ws, active) }
    ELSE IF ~found
    THEN { Run(NOT_FOUND, FALSE, "Window not found",
               << Call("get_webview_window", FALSE) >>, vis, ws, active) }
    ELSE IF ~visOk
    THEN { Run(INTERNAL_SERVER_ERROR, FALSE, "Failed to check window visibility",
               << Call("get_webview_window", TRUE), Call("is_visible", FALSE) >>, vis, ws, active) }
    ELSE IF vis
    THEN toggle_visible(hc, active, ws, vis,
                        << Call("get_webview_window", TRUE), Call("is_visible", TRUE) >>)
    ELSE toggle_hidden(hc, active, ws, vis,
                       << Call("get_webview_window", TRUE), Call("is_visible", TRUE) >>)

(* The health answer with the status of an unavailable server. *)
health_check_unavailable ==
    [status |-> SERVICE_UNAVAILABLE, success |-> TRUE, message |-> "Rua control server is running"]

(* POST /health. *)
health_check ==
    [status |-> OK, success |-> TRUE, message |-> "Rua control server is running"]

(* The tray menu's "show" item and a left click on the tray icon           *)
(* (system_tray.rs): show and focus the main window, results dropped.      *)
tray_show(found, ws, vis, active) ==
    IF ~found
    THEN { Run(0, FALSE, "", << Call("get_webview_window", FALSE) >>, vis, ws, active) }
    ELSE { Run(0, shown, "",
               << Call("get_webview_window", TRUE), Call("show", shown), Call("set_focus", focused) >>,
               IF shown THEN TRUE ELSE vis, ws, active)
           : shown \in BOOLEAN, focused \in BOOLEAN }

-----------------------------------------------------------------------------
(* The record of a handled request: what was asked, in which situation,    *)
(* and the run that answered it.                                           *)
Request(op, r) ==
    [op |-> op,
     ds |-> detect_display_server(hyprSig, hyprctl, display),
     pre |-> visible,
     onCurrent |-> (winWs = Some(activeWs)),
     status |-> r.status, success |-> r.success, message |-> r.message,
     trace |-> r.trace, post |-> r.visible]

(* What is kept of the request before the last one: whether it was a      *)
(* toggle that succeeded, the visibility flag it found and its message.    *)
Summary(q) ==
    IF q.op = "toggle" /\ q.success
    THEN [toggled |-> TRUE, pre |-> q.pre, message |-> q.message]
    ELSE [toggled |-> FALSE, pre |-> FALSE, message |-> ""]

(* No /toggle request is being followed step by step. *)
NoServer == [lock |-> 0]

(* WATCHER_STATE as lazy_static creates it. *)
NoWatcher == [debouncer |-> None, watched_path |-> None]

ExtIds == {"a", "b"}

(* An extensions folder with no registry.json and no extension in it. *)
NoExtensions ==
    [readable |-> TRUE,
     registry |-> [i \in ExtIds |-> "none"],
     dirs |-> [i \in ExtIds |-> "none"]]

(* No function has been called on its own yet. *)
NoCall == [fn |-> "none"]

NoRequest ==
    [op |-> "none", ds |-> "Unknown", pre |-> FALSE, onCurrent |-> FALSE,
     status |-> 0, success |-> FALSE, message |-> "", trace |-> <<>>, post |-> FALSE]

(* The sessions the requests are handled in: each variable unset or set   *)
(* to a value, and hyprctl in any of its states.                           *)
Init ==
    /\ hyprSig \in {"unset", "set"}
    /\ display \in {"unset", "set"}
    /\ hyprctl \in HyprctlStates
    /\ activeWs \in Workspaces
    /\ winWs \in {None} \cup { Some(w) : w \in Workspaces }
    /\ appHandle = TRUE
    /\ visible \in BOOLEAN
    /\ cur = NoRequest
    /\ prev = Summary(NoRequest)
    /\ last = NoCall
    /\ watcher = NoWatcher
    /\ extensions = NoExtensions
    /\ server = NoServer

Handled(op, r) ==
    /\ cur' = Request(op, r)
    /\ prev' = Summary(cur)
    /\ visible' = r.visible
    /\ winWs' = r.winWs
    /\ activeWs' = r.activeWs
    /\ UNCHANGED <<hyprSig, display, hyprctl, appHandle, last, server, watcher, extensions>>

(* A client posts /toggle. *)
Toggle ==
    \E found \in BOOLEAN, visOk \in BOOLEAN :
        \E r \in toggle_window(appHandle, found, visOk, hyprctl, activeWs, winWs, visible) :
            Handled("toggle", r)

(* A client posts /health. *)
Health ==
    /\ cur' = Request("health", Run(health_check.status, health_check.success,
                                    health_check.message, <<>>, visible, winWs, activeWs))
    /\ prev' = Summary(cur)
    /\ UNCHANGED <<hyprSig, display, hyprctl, activeWs, winWs, appHandle, visible, last,
                   server, watcher, extensions>>

(* The orchestrator's show_window is called on the main window. *)
ShowWindow ==
    \E r \in show_window(hyprSig, hyprctl, display, activeWs, winWs, visible) :
        Handled("show_window", r)

(* The orchestrator's hide_window is called on the main window. *)
HideWindow ==
    \E r \in hide_window(hyprSig, hyprctl, display, activeWs, winWs, visible) :
        Handled("hide_window", r)

(* The user picks "show" in the tray menu or clicks the tray icon. *)
TrayShow ==
    \E found \in BOOLEAN :
        \E r \in tray_show(found, winWs, visible, activeWs) :
            Handled("tray_show", r)

(* The user switches to another workspace. *)
SwitchWorkspace ==
    /\ \E w \in Workspaces \ {activeWs} : activeWs' = w
    /\ UNCHANGED <<hyprSig, display, hyprctl, winWs, appHandle, visible, cur, prev, last,
                   server, watcher, extensions>>

(* The control server and its clients. *)
Next ==
    \/ Toggle
    \/ Health
    \/ TrayShow
    \/ SwitchWorkspace

Spec == Init /\ [][Next]_vars

(* The orchestrator's two functions called directly. *)
OrchestratorNext ==
    \/ ShowWindow
    \/ HideWindow
    \/ SwitchWorkspace

OrchestratorSpec == Init /\ [][OrchestratorNext]_vars

-----------------------------------------------------------------------------
(* Reading the last request's trace.                                       *)

Called(name) == \E i \in DOMAIN cur.trace : cur.trace[i].call = name

Failed(name) == \E i \in DOMAIN cur.trace : cur.trace[i] = Call(name, FALSE)

Succeeded(name) == \E i \in DOMAIN cur.trace : cur.trace[i] = Call(name, TRUE)

(* hyprctl runs of the Hyprland strategy (the detector's probe is not one). *)
HyprlandCalls ==
    { "hyprctl activeworkspace", "hyprctl clients",
      "hyprctl dispatch movetoworkspacesilent", "hyprctl dispatch focuswindow" }

X11Calls ==
    { "x11 connect", "x11 find_window_by_class", "x11 map_window", "x11 configure_window",
      "x11 set_input_focus", "x11 _NET_ACTIVE_WINDOW", "x11 flush", "x11 unmap_window" }

UsesHyprland == \E c \in HyprlandCalls : Called(c)

UsesX11 == \E c \in X11Calls : Called(c)

(* The workspace check of the last request answered Ok(false). *)
CheckedElsewhere == Succeeded("hyprctl clients") /\ ~cur.onCurrent

(* The workspace check of the last request answered Ok(true). *)
CheckedHere == Succeeded("hyprctl clients") /\ cur.onCurrent

Orchestrated == cur.op \in {"show_window", "hide_window"}

-----------------------------------------------------------------------------
C2_ErrIffGenericFails ==
    /\ cur.op = "show_window" => (~cur.success <=> Failed("show"))
    /\ cur.op = "hide_window" => (~cur.success <=> Failed("hide"))

C2_Witness ==
    /\ cur.op = "show_window"
    /\ cur.success
    /\ Failed("hyprctl dispatch movetoworkspacesilent")
    /\ Failed("center")
    /\ Failed("set_focus")
    /\ Failed("emit rua://window-shown")

-----------------------------------------------------------------------------
(* Requests to /toggle.                                                    *)

(* The position of the first call of that name in the last trace (0: none). *)
FirstAt(name) ==
    IF Called(name)
    THEN CHOOSE i \in DOMAIN cur.trace :
            /\ cur.trace[i].call = name
            /\ \A k \in 1..(i - 1) : cur.trace[k].call # name
    ELSE 0

(* Both were called, a before b. *)
Before(a, b) == Called(a) /\ Called(b) /\ FirstAt(a) < FirstAt(b)

(* The last request was a toggle that found the window hidden. *)
ToggledHidden == cur.op = "toggle" /\ Succeeded("is_visible") /\ ~cur.pre

(* The last request was a toggle that found the window visible. *)
ToggledVisible == cur.op = "toggle" /\ Succeeded("is_visible") /\ cur.pre

Moved == "Window moved to current workspace"

(* C3 as stated: two consecutive successful toggle requests leave the      *)
(* visibility flag equal to its value before the first one.                *)
C3_AsStated ==
    (prev.toggled /\ cur.op = "toggle" /\ cur.success) => visible = prev.pre

(* C3: two successful toggle requests with no other show or hide of the   *)
(* window between them, neither of which answers "Window moved to current  *)
(* workspace", leave the visibility flag equal to its value before the     *)
(* first one; a toggle that answers "Window moved to current workspace"    *)
(* leaves the flag as it found it.                                         *)
C3_ToggleTwice ==
    /\ (prev.toggled /\ cur.op = "toggle" /\ cur.success
          /\ prev.message # Moved /\ cur.message # Moved) => visible = prev.pre
    /\ (cur.op = "toggle" /\ cur.success) =>
          /\ visible = cur.post
          /\ cur.message = Moved => cur.post = cur.pre
          /\ cur.message # Moved => cur.post = ~cur.pre

C3_Witness ==
    /\ prev.toggled /\ prev.pre /\ prev.message = "Window hidden"
    /\ cur.op = "toggle" /\ cur.success /\ cur.message = "Window shown"
    /\ visible

(* C4 as stated: a toggle on a hidden window first runs the show path of   *)
(* the detected display server (Hyprland: the move to the current          *)
(* workspace; X11: connect, find, map), whose failure does not stop the    *)
(* request, then calls center, show and set_focus in that order, then      *)
(* emits window-shown, and succeeds with the flag true when show succeeds. *)
C4_AsStated ==
    ToggledHidden =>
        /\ cur.ds = "Hyprland" => Before("hyprctl activeworkspace", "center")
        /\ cur.ds = "X11" => Before("x11 connect", "center")
        /\ Before("center", "show")
        /\ Succeeded("show") =>
              /\ Before("show", "set_focus")
              /\ Before("set_focus", "emit rua://window-shown")
              /\ cur.success /\ cur.status = OK /\ cur.post /\ visible

(* C5 as stated: a toggle under Hyprland on a visible window that the      *)
(* check finds on the current workspace hides it through the generic       *)
(* layer, sends no move or focus dispatch, emits window-hidden and leaves  *)
(* the flag false.                                                         *)
C5_AsStated ==
    (ToggledVisible /\ cur.ds = "Hyprland" /\ CheckedHere) =>
        /\ Called("hide")
        /\ ~Called("hyprctl dispatch movetoworkspacesilent")
        /\ ~Called("hyprctl dispatch focuswindow")
        /\ Called("emit rua://window-hidden")
        /\ ~visible

(* C5: a toggle under Hyprland on a visible window that the check finds on *)
(* the current workspace calls window.hide() and sends no move or focus    *)
(* dispatch; when the hide succeeds window-hidden is emitted after it, the *)
(* flag is false and the request succeeds; when the hide fails no event is *)
(* emitted, the flag stays true and the request fails.                     *)
C5_HideOnCurrentWorkspace ==
    (ToggledVisible /\ cur.ds = "Hyprland" /\ CheckedHere) =>
        /\ Called("hide")
        /\ ~Called("hyprctl dispatch movetoworkspacesilent")
        /\ ~Called("hyprctl dispatch focuswindow")
        /\ ~Called("emit rua://window-shown")
        /\ Succeeded("hide") =>
              /\ Before("hide", "emit rua://window-hidden")
              /\ ~visible /\ cur.success /\ cur.message = "Window hidden"
        /\ Failed("hide") =>
              /\ ~Called("emit rua://window-hidden")
              /\ visible /\ ~cur.success /\ cur.status = INTERNAL_SERVER_ERROR

C5_Witness ==
    /\ ToggledVisible /\ cur.ds = "Hyprland" /\ CheckedHere
    /\ Succeeded("hide")
    /\ Called("emit rua://window-hidden")
    /\ ~visible

(* How often a call of that name occurs in the last trace. *)
Count(name) == Cardinality({ i \in DOMAIN cur.trace : cur.trace[i].call = name })

(* C6: a toggle under Hyprland on a visible window that the check finds on *)
(* another workspace attempts the move (it reads the active workspace      *)
(* again and, when that read succeeds, sends the move dispatch), calls     *)
(* center and set_focus, does not call hide so that the flag stays true,   *)
(* emits window-shown and not window-hidden, and succeeds with "Window     *)
(* moved to current workspace" whether or not the move succeeded.          *)
C6_FetchFromOtherWorkspace ==
    (ToggledVisible /\ cur.ds = "Hyprland" /\ CheckedElsewhere) =>
        /\ Count("hyprctl activeworkspace") = 2
        /\ Called("hyprctl dispatch movetoworkspacesilent")
             <=> ~cur.trace[FirstAt("hyprctl clients") + 1] = Call("hyprctl activeworkspace", FALSE)
        /\ Before("hyprctl clients", "center")
        /\ Before("center", "set_focus")
        /\ Before("set_focus", "emit rua://window-shown")
        /\ ~Called("hide") /\ ~Called("show")
        /\ ~Called("emit rua://window-hidden")
        /\ visible
        /\ cur.success /\ cur.status = OK /\ cur.message = Moved

C6_Witness ==
    /\ ToggledVisible /\ cur.ds = "Hyprland" /\ CheckedElsewhere
    /\ Failed("hyprctl dispatch movetoworkspacesilent")
    /\ cur.success /\ cur.message = Moved
    /\ visible

(* C7 as stated, for requests whose window.hide() succeeds: a toggle under *)
(* X11 on a visible window attempts the X11 hide of the window of class    *)
(* "rua" (connect, find, unmap), then calls the generic hide and emits     *)
(* window-hidden.                                                          *)
C7_AsStated ==
    (ToggledVisible /\ cur.ds = "X11") =>
        /\ Before("x11 connect", "hide")
        /\ Succeeded("hide") => Before("hide", "emit rua://window-hidden")

(* C8 as stated, for requests whose window.hide() succeeds: a toggle on a  *)
(* visible window with the display server Unknown performs the generic     *)
(* hide only, with no X11 request and no Hyprland query or dispatch, and   *)
(* emits window-hidden.                                                    *)
C8_AsStated ==
    (ToggledVisible /\ cur.ds = "Unknown") =>
        /\ ~UsesX11
        /\ ~UsesHyprland
        /\ Called("hide")
        /\ Succeeded("hide") => Before("hide", "emit rua://window-hidden")

(* C9 as stated: /toggle answers success = false only when the generic     *)
(* show or hide call itself failed.                                        *)
C9_AsStated ==
    (cur.op = "toggle" /\ ~cur.success) => (Failed("show") \/ Failed("hide"))

(* C9: /toggle answers success = false only when the generic show or hide  *)
(* call failed, the visibility query failed, the main window is missing or *)
(* the app handle is absent; a failed display-server-specific step, center,*)
(* set_focus or emit never produces a failure answer.                      *)
C9_FailureAnswers ==
    cur.op = "toggle" =>
        (~cur.success <=>
            \/ Failed("show")
            \/ Failed("hide")
            \/ Failed("is_visible")
            \/ Failed("get_webview_window")
            \/ ~appHandle)

C9_Witness ==
    /\ cur.op = "toggle"
    /\ ~cur.success
    /\ Failed("is_visible")
    /\ cur.status = INTERNAL_SERVER_ERROR

(* C10: every answer of /toggle carries a success flag and a message, and  *)
(* success is true exactly when the status is 200 OK; /health always       *)
(* answers 200 with success = true, whatever the window state.             *)
C10_DefiniteAnswer ==
    /\ cur.op \in {"toggle", "health"} =>
          /\ cur.success \in BOOLEAN
          /\ cur.message # ""
          /\ cur.status \in {OK, NOT_FOUND, INTERNAL_SERVER_ERROR, SERVICE_UNAVAILABLE}
          /\ cur.success <=> cur.status = OK
    /\ cur.op = "health" => (cur.status = OK /\ cur.success)

C10_Witness ==
    /\ cur.op = "health"
    /\ cur.status = OK /\ cur.success
    /\ visible
    /\ prev.toggled

-----------------------------------------------------------------------------
(* The display server detector on its own: the process starts in any       *)
(* environment, the detector may be called at any time, and whether        *)
(* hyprctl works may change between calls (it is probed at each call).     *)

DetectInit ==
    /\ hyprSig \in EnvVarStates
    /\ display \in EnvVarStates
    /\ hyprctl \in HyprctlStates
    /\ activeWs = 1
    /\ winWs = None
    /\ appHandle = TRUE
    /\ visible = FALSE
    /\ cur = NoRequest
    /\ prev = Summary(NoRequest)
    /\ last = NoCall
    /\ watcher = NoWatcher
    /\ extensions = NoExtensions
    /\ server = NoServer

DetectDisplayServer ==
    /\ last' = [fn |-> "detect_display_server",
                sig |-> hyprSig, hc |-> hyprctl, disp |-> display,
                result |-> detect_display_server(hyprSig, hyprctl, display),
                trace |-> detect_trace(hyprSig, hyprctl)]
    /\ UNCHANGED <<hyprSig, display, hyprctl, activeWs, winWs, appHandle,
                   visible, cur, prev, server, watcher, extensions>>

HyprctlChanges ==
    /\ hyprctl' \in HyprctlStates \ {hyprctl}
    /\ UNCHANGED <<hyprSig, display, activeWs, winWs, appHandle, visible,
                   cur, prev, last, server, watcher, extensions>>

DetectNext ==
    \/ DetectDisplayServer
    \/ HyprctlChanges

DetectSpec == DetectInit /\ [][DetectNext]_vars

Detected == last.fn = "detect_display_server"

(* C11 as stated: detect_display_server returns Hyprland whenever the      *)
(* Hyprland variable is set to a non-empty string or the probe succeeds,   *)
(* whatever DISPLAY is; otherwise X11 exactly when DISPLAY is set and      *)
(* non-empty; otherwise Unknown.                                           *)
C11_AsStated ==
    Detected =>
        last.result =
            IF last.sig = "set" \/ last.hc = "ok" THEN "Hyprland"
            ELSE IF last.disp = "set" THEN "X11"
            ELSE "Unknown"

(* C12 as stated: with the Hyprland variable set to the empty string and   *)
(* the probe not succeeding, the result is decided by the later steps: X11 *)
(* if DISPLAY is non-empty, Unknown otherwise, and never Hyprland.         *)
C12_AsStated ==
    (Detected /\ last.sig = "empty" /\ last.hc # "ok") =>
        /\ last.result # "Hyprland"
        /\ last.result = IF last.disp = "set" THEN "X11" ELSE "Unknown"

NoSignal ==
    /\ last.sig = "unset"
    /\ last.hc # "ok"
    /\ last.disp \in {"unset", "empty"}

-----------------------------------------------------------------------------
(* The Hyprland controller function by function, on what the hyprctl       *)
(* subprocess returns: whether it could be spawned, its exit code and its  *)
(* standard output.  The output of a JSON query is the document serde_json *)
(* reads: malformed, an object, or an array of clients.                    *)

MaxClients == 2

ExitCodes == {0, 1}

(* Command::output(): Err (no process ran) or an Output. *)
ProcessOutputs(stdouts, nothing) ==
    { [spawned |-> FALSE, exit |-> 1, stdout |-> nothing] }
    \cup { [spawned |-> TRUE, exit |-> e, stdout |-> o] : e \in ExitCodes, o \in stdouts }

Malformed == [kind |-> "malformed"]

(* hyprctl activeworkspace -j: an object whose "id" is an integer or not. *)
ActiveWorkspaceDocs ==
    { Malformed }
    \cup { [kind |-> "object", id |-> i] : i \in {None} \cup { Some(w) : w \in Workspaces } }

(* One element of hyprctl clients -j: "class" is a string or not, and      *)
(* "workspace"."id" is an integer or not.                                  *)
Clients ==
    [ class : {None, Some("rua"), Some("Rua")},
      ws : {None} \cup { Some(w) : w \in Workspaces } ]

ClientLists == UNION { [1..n -> Clients] : n \in 0..MaxClients }

ClientsDocs ==
    { Malformed, [kind |-> "object", id |-> None] }
    \cup { [kind |-> "array", items |-> l] : l \in ClientLists }

(* The class argument of the commands: Option<String>. *)
ClassArgs == {None, Some("rua"), Some("Rua")}

(* class.unwrap_or_else(|| "rua".to_string()) *)
class_name_of(class) == IF class = None THEN "rua" ELSE class[1]

(* get_active_workspace on the output of hyprctl activeworkspace -j. *)
get_active_workspace_from(out) ==
    IF ~out.spawned THEN [ok |-> FALSE, id |-> 0]
    ELSE IF out.exit # 0 THEN [ok |-> FALSE, id |-> 0]
    ELSE IF out.stdout.kind = "malformed" THEN [ok |-> FALSE, id |-> 0]
    ELSE IF out.stdout.id = None THEN [ok |-> FALSE, id |-> 0]
    ELSE [ok |-> TRUE, id |-> out.stdout.id[1]]

RECURSIVE client_scan_last(_, _, _)
client_scan_last(items, class, i) ==
    IF i > Len(items) THEN None
    ELSE IF items[i].class = Some(class)
              /\ \A j \in (i + 1)..Len(items) : items[j].class # Some(class)
         THEN items[i].ws
    ELSE client_scan_last(items, class, i + 1)

(* The loop over the clients array, from element i on: the workspace id of *)
(* the first client whose class is the requested one.                      *)
RECURSIVE client_scan(_, _, _)
client_scan(items, class, i) ==
    IF i > Len(items) THEN None
    ELSE IF items[i].class = Some(class) THEN items[i].ws
    ELSE client_scan(items, class, i + 1)

(* get_window_workspace on the output of hyprctl clients -j. *)
get_window_workspace_from(out, class) ==
    IF ~out.spawned THEN [ok |-> FALSE, ws |-> None]
    ELSE IF out.exit # 0 THEN [ok |-> FALSE, ws |-> None]
    ELSE IF out.stdout.kind = "malformed" THEN [ok |-> FALSE, ws |-> None]
    ELSE IF out.stdout.kind = "array"
    THEN [ok |-> TRUE, ws |-> client_scan(out.stdout.items, class, 1)]
    ELSE [ok |-> TRUE, ws |-> None]

is_window_on_current_workspace_any(class, aout, cout) ==
    LET a == get_active_workspace_from(aout)
        w == get_window_workspace_from(cout, class_name_of(class))
    IN  IF ~a.ok THEN "err"
        ELSE IF ~w.ok THEN "err"
        ELSE IF w.ws # None THEN "true" ELSE "false"

(* is_window_on_current_workspace on the outputs of its two queries. *)
is_window_on_current_workspace_from(class, aout, cout) ==
    LET a == get_active_workspace_from(aout)
        w == get_window_workspace_from(cout, class_name_of(class))
    IN  IF ~a.ok THEN "err"
        ELSE IF ~w.ok THEN "err"
        ELSE IF w.ws = Some(a.id) THEN "true" ELSE "false"

move_to_current_workspace_lowercase_only(class, aout, dout) ==
    LET a == get_active_workspace_from(aout)
        arg == <<a.id, "class", class_name_of(class)>>
    IN  IF ~a.ok THEN [ok |-> FALSE, ran |-> FALSE, arg |-> <<>>]
        ELSE IF ~dout.spawned THEN [ok |-> FALSE, ran |-> FALSE, arg |-> arg]
        ELSE [ok |-> ~Contains(dout.stdout, str_error), ran |-> TRUE, arg |-> arg]

move_to_current_workspace_checks_status(class, aout, dout) ==
    LET a == get_active_workspace_from(aout)
        arg == <<a.id, "class", class_name_of(class)>>
    IN  IF ~a.ok THEN [ok |-> FALSE, ran |-> FALSE, arg |-> <<>>]
        ELSE IF ~dout.spawned THEN [ok |-> FALSE, ran |-> FALSE, arg |-> arg]
        ELSE IF dout.exit # 0 THEN [ok |-> FALSE, ran |-> TRUE, arg |-> arg]
        ELSE [ok |-> ~stdout_reports_error(dout.stdout), ran |-> TRUE, arg |-> arg]

(* move_to_current_workspace on the outputs of the active workspace query  *)
(* and of hyprctl dispatch movetoworkspacesilent <id>,class:<name>.        *)
move_to_current_workspace_from(class, aout, dout) ==
    LET a == get_active_workspace_from(aout)
        arg == <<a.id, "class", class_name_of(class)>>
    IN  IF ~a.ok THEN [ok |-> FALSE, ran |-> FALSE, arg |-> <<>>]
        ELSE IF ~dout.spawned THEN [ok |-> FALSE, ran |-> FALSE, arg |-> arg]
        ELSE [ok |-> ~stdout_reports_error(dout.stdout), ran |-> TRUE, arg |-> arg]

focus_by_class_checks_status(class, dout) ==
    LET arg == <<"class", class_name_of(class)>>
    IN  IF ~dout.spawned THEN [ok |-> FALSE, ran |-> FALSE, arg |-> arg]
        ELSE [ok |-> dout.exit = 0, ran |-> TRUE, arg |-> arg]

(* focus_by_class on the output of hyprctl dispatch focuswindow            *)
(* class:<name>.                                                           *)
focus_by_class_from(class, dout) ==
    LET arg == <<"class", class_name_of(class)>>
    IN  IF ~dout.spawned THEN [ok |-> FALSE, ran |-> FALSE, arg |-> arg]
        ELSE [ok |-> ~stdout_reports_error(dout.stdout), ran |-> TRUE, arg |-> arg]

(* A call that has been made and has not returned yet: the function, its   *)
(* argument and what the subprocesses it spawns are going to return.       *)
ControllerCalls ==
    { [fn |-> "get_window_workspace", done |-> FALSE, class |-> class, cout |-> cout]
      : class \in {"rua", "Rua"}, cout \in ProcessOutputs(ClientsDocs, Malformed) }
    \cup
    { [fn |-> "is_window_on_current_workspace", done |-> FALSE, class |-> class,
       aout |-> aout, cout |-> cout]
      : class \in ClassArgs,
        aout \in ProcessOutputs(ActiveWorkspaceDocs, Malformed),
        cout \in ProcessOutputs(ClientsDocs, Malformed) }
    \cup
    { [fn |-> "move_to_current_workspace", done |-> FALSE, class |-> class,
       aout |-> aout, dout |-> dout]
      : class \in ClassArgs,
        aout \in ProcessOutputs(ActiveWorkspaceDocs, Malformed),
        dout \in ProcessOutputs(Stdouts, <<>>) }
    \cup
    { [fn |-> "focus_by_class", done |-> FALSE, class |-> class, dout |-> dout]
      : class \in ClassArgs, dout \in ProcessOutputs(Stdouts, <<>>) }

HyprlandInit ==
    /\ hyprSig = "set"
    /\ display = "unset"
    /\ hyprctl = "ok"
    /\ activeWs = 1
    /\ winWs = None
    /\ appHandle = TRUE
    /\ visible = FALSE
    /\ cur = NoRequest
    /\ prev = Summary(NoRequest)
    /\ last \in ControllerCalls
    /\ watcher = NoWatcher
    /\ extensions = NoExtensions
    /\ server = NoServer

(* The call returns. *)
Returns(result) ==
    /\ last' = [ k \in DOMAIN last \cup {"result"} |->
                  IF k = "result" THEN result
                  ELSE IF k = "done" THEN TRUE
                  ELSE last[k] ]
    /\ UNCHANGED <<hyprSig, display, hyprctl, activeWs, winWs, appHandle,
                   visible, cur, prev, server, watcher, extensions>>

GetWindowWorkspace ==
    /\ last.fn = "get_window_workspace"
    /\ ~last.done
    /\ Returns(get_window_workspace_from(last.cout, last.class))

IsWindowOnCurrentWorkspace ==
    /\ last.fn = "is_window_on_current_workspace"
    /\ ~last.done
    /\ Returns(is_window_on_current_workspace_from(last.class, last.aout, last.cout))

MoveToCurrentWorkspace ==
    /\ last.fn = "move_to_current_workspace"
    /\ ~last.done
    /\ Returns(move_to_current_workspace_from(last.class, last.aout, last.dout))

FocusByClass ==
    /\ last.fn = "focus_by_class"
    /\ ~last.done
    /\ Returns(focus_by_class_from(last.class, last.dout))

HyprlandNext ==
    \/ GetWindowWorkspace
    \/ IsWindowOnCurrentWorkspace
    \/ MoveToCurrentWorkspace
    \/ FocusByClass

HyprlandSpec == HyprlandInit /\ [][HyprlandNext]_vars

Returned(fn) == last.fn = fn /\ last.done

(* The subprocess ran, exited with 0 and printed well-formed JSON. *)
QueryOk(out) == out.spawned /\ out.exit = 0 /\ out.stdout.kind # "malformed"

(* ... and the JSON has an integer "id". *)
ActiveOk(out) == QueryOk(out) /\ out.stdout.id # None

Matches(doc, class) ==
    IF doc.kind = "array"
    THEN { i \in 1..Len(doc.items) : doc.items[i].class = Some(class) }
    ELSE {}

FirstMatch(doc, class) ==
    CHOOSE i \in Matches(doc, class) : \A j \in Matches(doc, class) : i <= j

(* C14: when both queries answer, is_window_on_current_workspace(class) is *)
(* true if and only if a client of that class is found and its workspace   *)
(* id is the active workspace id; a class that is not in the client list   *)
(* gives false, not an error: the only errors are failed queries.          *)
C14_TrueIffSameWorkspace ==
    Returned("is_window_on_current_workspace") =>
        LET name == class_name_of(last.class)
            found == Matches(last.cout.stdout, name) # {}
            answered == ActiveOk(last.aout) /\ QueryOk(last.cout)
        IN  /\ (last.result = "err") <=> ~answered
            /\ answered =>
                  /\ (last.result = "true") <=>
                        /\ found
                        /\ last.cout.stdout.items[FirstMatch(last.cout.stdout, name)].ws
                             = last.aout.stdout.id
                  /\ ~found => last.result = "false"

C14_Witness ==
    /\ Returned("is_window_on_current_workspace")
    /\ last.result = "true"
    /\ last.class = None
    /\ last.aout.stdout.id = Some(2)
    /\ last.cout.stdout.kind = "array"
    /\ Len(last.cout.stdout.items) = 2
    /\ last.cout.stdout.items[1] = [class |-> Some("Rua"), ws |-> Some(1)]
    /\ last.cout.stdout.items[2] = [class |-> Some("rua"), ws |-> Some(2)]

(* C15: get_window_workspace(class) returns the workspace id of the first  *)
(* client in list order whose class is exactly the requested one, None     *)
(* when no client matches, and an error only when the subprocess cannot    *)
(* run, exits non-zero or prints malformed JSON.                           *)
C15_FirstMatchInListOrder ==
    Returned("get_window_workspace") =>
        /\ last.result.ok <=> QueryOk(last.cout)
        /\ QueryOk(last.cout) =>
              IF Matches(last.cout.stdout, last.class) # {}
              THEN last.result.ws =
                     last.cout.stdout.items[FirstMatch(last.cout.stdout, last.class)].ws
              ELSE last.result.ws = None

C15_Witness ==
    /\ Returned("get_window_workspace")
    /\ last.class = "rua"
    /\ QueryOk(last.cout)
    /\ last.cout.stdout.kind = "array"
    /\ Len(last.cout.stdout.items) = 2
    /\ last.cout.stdout.items[1] = [class |-> Some("rua"), ws |-> Some(2)]
    /\ last.cout.stdout.items[2] = [class |-> Some("rua"), ws |-> Some(1)]
    /\ last.result = [ok |-> TRUE, ws |-> Some(2)]

UpperCase == <<"A", "B", "C", "D", "E", "F", "G", "H", "I", "J", "K", "L", "M",
               "N", "O", "P", "Q", "R", "S", "T", "U", "V", "W", "X", "Y", "Z">>
LowerCase == <<"a", "b", "c", "d", "e", "f", "g", "h", "i", "j", "k", "l", "m",
               "n", "o", "p", "q", "r", "s", "t", "u", "v", "w", "x", "y", "z">>

ToLower(c) ==
    IF \E i \in 1..26 : UpperCase[i] = c
    THEN LowerCase[CHOOSE i \in 1..26 : UpperCase[i] = c]
    ELSE c

(* The text contains the word in some letter case. *)
ContainsAnyCase(s, word) == Contains([i \in 1..Len(s) |-> ToLower(s[i])], word)

(* C16 as stated: when the dispatch command ran, move_to_current_workspace *)
(* reports failure exactly when its standard output contains "error" in    *)
(* any letter case, and success otherwise.                                 *)
C16_AsStated ==
    (Returned("move_to_current_workspace") /\ last.result.ran) =>
        (~last.result.ok <=> ContainsAnyCase(last.dout.stdout, str_error))

(* C17: the result of the move dispatch depends on the standard output     *)
(* only: it is the same for either exit code, a failure exactly when the   *)
(* output contains "Error" or "error", so output containing "Error" is a   *)
(* failure even with exit code 0.                                          *)
C17_StdoutOnly ==
    (Returned("move_to_current_workspace") /\ last.result.ran) =>
        /\ ~last.result.ok <=>
              \/ Contains(last.dout.stdout, <<"E", "r", "r", "o", "r">>)
              \/ Contains(last.dout.stdout, <<"e", "r", "r", "o", "r">>)
        /\ (Contains(last.dout.stdout, <<"E", "r", "r", "o", "r">>) /\ last.dout.exit = 0)
              => ~last.result.ok
        /\ (last.dout.stdout = <<"o", "k">> /\ last.dout.exit = 1) => last.result.ok

C17_Witness ==
    /\ Returned("move_to_current_workspace")
    /\ last.result.ran
    /\ last.dout.exit = 0
    /\ last.dout.stdout = <<"x", "E", "r", "r", "o", "r">>
    /\ ~last.result.ok
    /\ last.result.arg = <<2, "class", "rua">>

-----------------------------------------------------------------------------
(* The X11 window manager function by function, on what the X server       *)
(* answers.  Windows are 1..MaxWindows with root 1; a tree gives each      *)
(* window the children the query_tree reply lists, in reply order.         *)

MaxWindows == 3

Windows == 1..MaxWindows

root == 1

RECURSIVE Ascending(_)
Ascending(S) ==
    IF S = {} THEN <<>>
    ELSE LET m == CHOOSE x \in S : \A y \in S : x <= y
         IN  <<m>> \o Ascending(S \ {m})

Reverse(q) == [i \in 1..Len(q) |-> q[Len(q) + 1 - i]]

(* The window trees: every window but the root has a parent created       *)
(* before it, and a reply lists the children bottom-up or top-down.        *)
Trees ==
    { [w \in Windows |->
          LET kids == Ascending({ c \in Windows \ {root} : parent[c] = w })
          IN  IF up THEN kids ELSE Reverse(kids)]
      : parent \in { p \in [Windows \ {root} -> Windows] : \A c \in Windows \ {root} : p[c] < c },
        up \in BOOLEAN }

(* What get_property answers for WM_CLASS: no reply, or the value as the   *)
(* pieces between its NUL bytes.                                           *)
Properties ==
    { [readable |-> FALSE, value |-> <<>>],
      [readable |-> TRUE, value |-> <<"">>],
      [readable |-> TRUE, value |-> <<"rua">>],
      [readable |-> TRUE, value |-> <<"rua", "App", "">>],
      [readable |-> TRUE, value |-> <<"app", "rua", "">>],
      [readable |-> TRUE, value |-> <<"app", "Rua", "">>] }

(* get_window_class: Option<(instance, class)>. *)
get_window_class(prop) ==
    IF ~prop.readable THEN None
    ELSE LET parts == SelectSeq(prop.value, LAMBDA p : p # "")
         IN  IF Len(parts) >= 2 THEN Some(<<parts[1], parts[2]>>)
             ELSE IF Len(parts) = 1 THEN Some(<<parts[1], parts[1]>>)
             ELSE None

RECURSIVE get_all_windows_loop_abort_on_failure(_, _, _, _)
get_all_windows_loop_abort_on_failure(tree, qfail, queue, windows) ==
    IF queue = <<>> THEN windows
    ELSE LET window == queue[Len(queue)]
             rest == SubSeq(queue, 1, Len(queue) - 1)
         IN  IF window \in qfail THEN Append(windows, window)
             ELSE get_all_windows_loop_abort_on_failure(tree, qfail,
                      rest \o tree[window], Append(windows, window))

(* The loop of get_all_windows: pop the last window of the queue, record   *)
(* it, and push its children unless its query_tree fails.                  *)
RECURSIVE get_all_windows_loop(_, _, _, _)
get_all_windows_loop(tree, qfail, queue, windows) ==
    IF queue = <<>> THEN windows
    ELSE LET window == queue[Len(queue)]
             rest == SubSeq(queue, 1, Len(queue) - 1)
         IN  get_all_windows_loop(tree, qfail,
                 IF window \in qfail THEN rest ELSE rest \o tree[window],
                 Append(windows, window))

get_all_windows(tree, qfail, r) == get_all_windows_loop(tree, qfail, <<r>>, <<>>)

RECURSIVE window_scan_class_only(_, _, _, _)
window_scan_class_only(windows, props, class_name, i) ==
    IF i > Len(windows) THEN None
    ELSE LET wc == get_window_class(props[windows[i]])
         IN  IF wc # None /\ wc[1][2] = class_name
             THEN Some(windows[i])
             ELSE window_scan_class_only(windows, props, class_name, i + 1)

(* The loop of find_window_by_class over the enumerated windows. *)
RECURSIVE window_scan(_, _, _, _)
window_scan(windows, props, class_name, i) ==
    IF i > Len(windows) THEN None
    ELSE LET wc == get_window_class(props[windows[i]])
         IN  IF wc # None /\ (wc[1][1] = class_name \/ wc[1][2] = class_name)
             THEN Some(windows[i])
             ELSE window_scan(windows, props, class_name, i + 1)

(* find_window_by_class on a window tree: Option<Window>. *)
X11_find_window_by_class(tree, qfail, props, class_name) ==
    window_scan(get_all_windows(tree, qfail, root), props, class_name, 1)

(* A call that has not returned yet, with what the server is going to      *)
(* answer.  show_window and hide_window take any window id, of a window    *)
(* that exists or of one that does not (never created, or destroyed): the  *)
(* Result of each of their requests tells whether the request could be     *)
(* sent on the connection, and the cookie of the request is dropped        *)
(* without waiting for the server's answer to it.                          *)
PendingX11Calls ==
    { [fn |-> "find_window_by_class", done |-> FALSE, class |-> "rua",
       tree |-> tree, qfail |-> qfail, props |-> props]
      : tree \in Trees,
        qfail \in {{}} \cup { {w} : w \in Windows },
        props \in [Windows -> Properties] }
    \cup
    { [fn |-> f, done |-> FALSE, window |-> w, exists |-> e]
      : f \in {"show_window", "hide_window"}, w \in Windows, e \in BOOLEAN }

X11Init ==
    /\ hyprSig = "unset"
    /\ display = "set"
    /\ hyprctl = "missing"
    /\ activeWs = 1
    /\ winWs = None
    /\ appHandle = TRUE
    /\ visible = FALSE
    /\ cur = NoRequest
    /\ prev = Summary(NoRequest)
    /\ last \in PendingX11Calls
    /\ watcher = NoWatcher
    /\ extensions = NoExtensions
    /\ server = NoServer

X11FindWindowByClass ==
    /\ last.fn = "find_window_by_class"
    /\ ~last.done
    /\ Returns(X11_find_window_by_class(last.tree, last.qfail, last.props, last.class))

X11ShowWindow ==
    /\ last.fn = "show_window"
    /\ ~last.done
    /\ \E r \in X11_show_window : Returns(r)

X11HideWindow ==
    /\ last.fn = "hide_window"
    /\ ~last.done
    /\ \E r \in X11_hide_window : Returns(r)

X11Next ==
    \/ X11FindWindowByClass
    \/ X11ShowWindow
    \/ X11HideWindow

X11Spec == X11Init /\ [][X11Next]_vars

(* The windows a find visits, in the order it visits them. *)
Traversal == get_all_windows(last.tree, last.qfail, root)

(* The positions of the traversal whose window has the class as instance   *)
(* or class string of a readable WM_CLASS.                                 *)
Hits ==
    { i \in 1..Len(Traversal) :
        LET wc == get_window_class(last.props[Traversal[i]])
        IN  wc # None /\ (wc[1][1] = last.class \/ wc[1][2] = last.class) }

(* C19: find_window_by_class(c) returns the first window in traversal      *)
(* order whose WM_CLASS instance or class string is exactly c, and None    *)
(* when no visited window has one; a window whose WM_CLASS cannot be read  *)
(* or is empty never matches.                                              *)
C19_FirstMatchInTraversalOrder ==
    Returned("find_window_by_class") =>
        /\ IF Hits = {}
           THEN last.result = None
           ELSE last.result = Some(Traversal[CHOOSE i \in Hits : \A j \in Hits : i <= j])
        /\ last.result # None =>
              LET prop == last.props[last.result[1]]
              IN  /\ prop.readable
                  /\ \E k \in 1..Len(prop.value) : prop.value[k] = last.class

C19_Witness ==
    /\ Returned("find_window_by_class")
    /\ last.qfail = {}
    /\ last.tree[root] = <<2, 3>>
    /\ ~last.props[1].readable
    /\ last.props[2].value = <<"app", "rua", "">>
    /\ last.props[3].value = <<"rua", "App", "">>
    /\ Traversal = <<1, 3, 2>>
    /\ last.result = Some(3)

RequestFailed(name) ==
    \E i \in 1..Len(last.result.trace) : last.result.trace[i] = Call(name, FALSE)

(* C20 as stated: X11 show_window returns an error only if the map, the    *)
(* configure or the set-input-focus request fails; no other step, the      *)
(* final flush included, makes the call fail.                              *)
C20_AsStated ==
    (Returned("show_window") /\ ~last.result.ok) =>
        \/ RequestFailed("x11 map_window")
        \/ RequestFailed("x11 configure_window")
        \/ RequestFailed("x11 set_input_focus")

(* C20 amended: X11 show_window returns an error exactly when the map, the *)
(* configure, the set-input-focus request or the final flush fails; a      *)
(* failure of the _NET_ACTIVE_WINDOW client message alone is swallowed.    *)
C20_ErrIffRequestOrFlushFails ==
    Returned("show_window") =>
        /\ ~last.result.ok <=>
              \/ RequestFailed("x11 map_window")
              \/ RequestFailed("x11 configure_window")
              \/ RequestFailed("x11 set_input_focus")
              \/ RequestFailed("x11 flush")
        /\ (RequestFailed("x11 _NET_ACTIVE_WINDOW") /\ ~RequestFailed("x11 flush"))
              => last.result.ok

C20_Witness ==
    /\ Returned("show_window")
    /\ ~last.result.ok
    /\ last.result.trace = << Call("x11 map_window", TRUE),
                              Call("x11 configure_window", TRUE),
                              Call("x11 set_input_focus", TRUE),
                              Call("x11 _NET_ACTIVE_WINDOW", FALSE),
                              Call("x11 flush", FALSE) >>

(* C21 as stated: X11 hide_window unmaps the window and then flushes, and  *)
(* returns an error only if the unmap request itself fails.                *)
C21_AsStated ==
    Returned("hide_window") =>
        /\ last.result.trace[1].call = "x11 unmap_window"
        /\ ~last.result.ok => RequestFailed("x11 unmap_window")

(* C21 amended: X11 hide_window issues the unmap request and, if that      *)
(* succeeds, the flush, in this order; it returns an error exactly when    *)
(* the unmap request or the flush fails.                                   *)
C21_ErrIffUnmapOrFlushFails ==
    Returned("hide_window") =>
        /\ last.result.trace[1].call = "x11 unmap_window"
        /\ IF RequestFailed("x11 unmap_window")
           THEN Len(last.result.trace) = 1
           ELSE /\ Len(last.result.trace) = 2
                /\ last.result.trace[2].call = "x11 flush"
        /\ ~last.result.ok <=>
              RequestFailed("x11 unmap_window") \/ RequestFailed("x11 flush")

C21_Witness ==
    /\ Returned("hide_window")
    /\ last.result.trace = << Call("x11 unmap_window", TRUE), Call("x11 flush", FALSE) >>
    /\ ~last.result.ok

(* C22 as stated: X11 show_window and hide_window called with the id of a  *)
(* window that does not exist (invalid or destroyed) return an error and   *)
(* not Ok.                                                                 *)
C22_AsStated ==
    ((Returned("show_window") \/ Returned("hide_window")) /\ ~last.exists) =>
        ~last.result.ok

-----------------------------------------------------------------------------
(* One request of any kind, from any state the program can start it in:    *)
(* a /toggle, or a call of one of the orchestrator's two functions.        *)

FirstToggle == cur = NoRequest /\ Toggle

FirstShowWindow == cur = NoRequest /\ ShowWindow

FirstHideWindow == cur = NoRequest /\ HideWindow

OneRequestNext ==
    \/ FirstToggle
    \/ FirstShowWindow
    \/ FirstHideWindow

OneRequestSpec == Init /\ [][OneRequestNext]_vars

(* The X11 requests and the hyprctl invocations of a request. *)
ExternalCalls ==
    { "hyprctl version", "hyprctl activeworkspace", "hyprctl clients",
      "hyprctl dispatch movetoworkspacesilent", "hyprctl dispatch focuswindow",
      "x11 connect", "x11 map_window", "x11 configure_window", "x11 set_input_focus",
      "x11 _NET_ACTIVE_WINDOW", "x11 unmap_window" }

(* C23: within one show, hide or toggle request no X11 request and no      *)
(* hyprctl invocation is issued again after it failed: the request goes on *)
(* with a different step or returns.                                       *)
C23_NoRetry ==
    cur.op \in {"toggle", "show_window", "hide_window"} =>
        \A i \in DOMAIN cur.trace :
            (cur.trace[i].call \in ExternalCalls /\ ~cur.trace[i].ok) =>
                \A j \in DOMAIN cur.trace :
                    j > i => cur.trace[j].call # cur.trace[i].call

C23_Witness ==
    /\ cur.op = "hide_window"
    /\ Failed("hyprctl dispatch movetoworkspacesilent")
    /\ Count("hyprctl activeworkspace") = 2
    /\ Count("hyprctl dispatch movetoworkspacesilent") = 1
    /\ Called("hyprctl dispatch focuswindow")

ShowOrder ==
    << "x11 map_window", "x11 configure_window", "x11 set_input_focus",
       "x11 _NET_ACTIVE_WINDOW", "x11 flush" >>

(* C24: X11 show_window issues map, configure, set input focus, the        *)
(* _NET_ACTIVE_WINDOW client message and flush in this order; when the     *)
(* map, configure or focus request fails nothing later is issued, and when *)
(* all three succeed the message and the flush are both issued, whatever   *)
(* the message's result.                                                   *)
C24_FixedOrder ==
    Returned("show_window") =>
        LET t == last.result.trace
        IN  /\ Len(t) \in 1..5
            /\ \A i \in 1..Len(t) : t[i].call = ShowOrder[i]
            /\ \A i \in 1..Len(t) : (i <= 3 /\ ~t[i].ok) => Len(t) = i
            /\ (\A i \in 1..Len(t) : i <= 3 => t[i].ok) => Len(t) = 5

C24_Witness ==
    /\ Returned("show_window")
    /\ last.result.trace = << Call("x11 map_window", TRUE),
                              Call("x11 configure_window", FALSE) >>
    /\ ~last.result.ok

-----------------------------------------------------------------------------
(* Two /toggle requests served at the same time.  Each handler takes the   *)
(* app-handle mutex (lock().await), reads is_visible, runs its arm and     *)
(* builds the response; the guard is dropped when the handler returns.     *)
(* server.lock is the request holding the mutex (0: free), server.log the  *)
(* requests in the order their arms ran, each with the flag it read and    *)
(* the flag and the answer it left.                                        *)

Threads == {1, 2}

ToggleInit ==
    /\ hyprSig = "set"
    /\ display = "unset"
    /\ hyprctl \in HyprctlStates
    /\ activeWs \in Workspaces
    /\ winWs \in {None} \cup { Some(w) : w \in Workspaces }
    /\ appHandle = TRUE
    /\ visible \in BOOLEAN
    /\ cur = NoRequest
    /\ prev = Summary(NoRequest)
    /\ last = NoCall
    /\ watcher = NoWatcher
    /\ extensions = NoExtensions
    /\ server = [lock |-> 0,
                 pc |-> [t \in Threads |-> "idle"],
                 seen |-> [t \in Threads |-> FALSE],
                 initial |-> visible,
                 log |-> <<>>]

Acquire_without_mutex(t) ==
    /\ server.pc[t] = "idle"
    /\ server' = [server EXCEPT !.lock = t, !.pc[t] = "locked"]
    /\ UNCHANGED <<hyprSig, display, hyprctl, activeWs, winWs, appHandle,
                   visible, cur, prev, last, watcher, extensions>>

(* state.app_handle.lock().await returns: the mutex was free. *)
Acquire(t) ==
    /\ server.pc[t] = "idle"
    /\ server.lock = 0
    /\ server' = [server EXCEPT !.lock = t, !.pc[t] = "locked"]
    /\ UNCHANGED <<hyprSig, display, hyprctl, activeWs, winWs, appHandle,
                   visible, cur, prev, last, watcher, extensions>>

(* window.is_visible() *)
ReadVisible(t) ==
    /\ server.pc[t] = "locked"
    /\ server' = [server EXCEPT !.seen[t] = visible, !.pc[t] = "read"]
    /\ UNCHANGED <<hyprSig, display, hyprctl, activeWs, winWs, appHandle,
                   visible, cur, prev, last, watcher, extensions>>

(* The arm chosen by the flag that was read: hide, move or show. *)
Act(t) ==
    /\ server.pc[t] = "read"
    /\ \E r \in toggle_window(appHandle, TRUE, TRUE, hyprctl, activeWs, winWs, server.seen[t]) :
          /\ visible' = IF r.visible # server.seen[t] THEN r.visible ELSE visible
          /\ winWs' = r.winWs
          /\ activeWs' = r.activeWs
          /\ server' = [server EXCEPT
                           !.pc[t] = "acted",
                           !.log = Append(@, [t |-> t, seen |-> server.seen[t],
                                              post |-> visible', message |-> r.message])]
    /\ UNCHANGED <<hyprSig, display, hyprctl, appHandle, cur, prev, last, watcher,
                   extensions>>

(* The handler returns its response and the guard is dropped. *)
Respond(t) ==
    /\ server.pc[t] = "acted"
    /\ server' = [server EXCEPT !.pc[t] = "done",
                                !.lock = IF @ = t THEN 0 ELSE @]
    /\ UNCHANGED <<hyprSig, display, hyprctl, activeWs, winWs, appHandle,
                   visible, cur, prev, last, watcher, extensions>>

ToggleNext ==
    \E t \in Threads :
        \/ Acquire(t)
        \/ ReadVisible(t)
        \/ Act(t)
        \/ Respond(t)

ToggleSpec == ToggleInit /\ [][ToggleNext]_vars

InHandler(t) == server.pc[t] \in {"locked", "read", "acted"}

(* C25: two /toggle requests served at the same time do not interleave:    *)
(* at most one of them is between taking the mutex and returning, the flag *)
(* a request has read is still the flag when its arm runs, and each        *)
(* request read the flag that the request before it left, as in a          *)
(* sequential order of the two.                                            *)
C25_TogglesSerialized ==
    /\ \A t \in Threads : \A u \in Threads \ {t} : ~(InHandler(t) /\ InHandler(u))
    /\ \A t \in Threads : InHandler(t) => server.lock = t
    /\ \A t \in Threads : server.pc[t] = "read" => server.seen[t] = visible
    /\ Len(server.log) >= 1 => server.log[1].seen = server.initial
    /\ \A k \in 2..Len(server.log) : server.log[k].seen = server.log[k - 1].post

C25_Witness ==
    /\ server.pc[1] = "done"
    /\ server.pc[2] = "done"
    /\ server.log[1].t = 2
    /\ server.log[1].message = "Window shown"
    /\ server.log[2].t = 1
    /\ server.log[2].message = "Window hidden"
    /\ ~visible

-----------------------------------------------------------------------------
(* hide_window under Hyprland step by step, with the user free to switch   *)
(* workspace between the steps: the workspace check, then the move (or the *)
(* generic hide).  last holds the call in progress: the step it is at, the *)
(* active workspace its check read, the one that was active when the move  *)
(* ran, and the workspace the move dispatch named.                         *)

HideStepsInit ==
    /\ hyprSig = "set"
    /\ display = "unset"
    /\ hyprctl \in HyprctlStates
    /\ activeWs \in Workspaces
    /\ winWs \in {None} \cup { Some(w) : w \in Workspaces }
    /\ appHandle = TRUE
    /\ visible = TRUE
    /\ cur = NoRequest
    /\ prev = Summary(NoRequest)
    /\ last = [fn |-> "hide_window", done |-> FALSE, step |-> "check",
               checked |-> None, moveActive |-> None, target |-> None,
               moved |-> FALSE, trace |-> <<>>]
    /\ server = NoServer
    /\ watcher = NoWatcher
    /\ extensions = NoExtensions

HideCheck ==
    /\ last.fn = "hide_window"
    /\ last.step = "check"
    /\ \E c \in is_window_on_current_workspace(hyprctl, activeWs, winWs) :
          last' = [last EXCEPT
                     !.step = IF c.res = "false" THEN "move" ELSE "hide",
                     !.checked = IF c.res = "err" THEN None ELSE Some(activeWs),
                     !.trace = c.trace]
    /\ UNCHANGED <<hyprSig, display, hyprctl, activeWs, winWs, appHandle,
                   visible, cur, prev, server, watcher, extensions>>

HideMove_to_checked ==
    /\ last.fn = "hide_window"
    /\ last.step = "move"
    /\ \E m \in move_to_current_workspace(hyprctl, last.checked[1], winWs) :
        \E f \in focus_by_class(hyprctl, m.ws) :
          /\ winWs' = m.ws
          /\ last' = [last EXCEPT
                        !.step = "returned", !.done = TRUE,
                        !.moveActive = Some(activeWs), !.target = m.target,
                        !.moved = m.ok,
                        !.trace = @ \o m.trace \o f.trace]
    /\ UNCHANGED <<hyprSig, display, hyprctl, activeWs, appHandle, visible,
                   cur, prev, server, watcher, extensions>>

(* The Ok(false) arm: move_to_current_workspace, then the focus dispatch. *)
HideMove ==
    /\ last.fn = "hide_window"
    /\ last.step = "move"
    /\ \E m \in move_to_current_workspace(hyprctl, activeWs, winWs) :
        \E f \in focus_by_class(hyprctl, m.ws) :
          /\ winWs' = m.ws
          /\ last' = [last EXCEPT
                        !.step = "returned", !.done = TRUE,
                        !.moveActive = Some(activeWs), !.target = m.target,
                        !.moved = m.ok,
                        !.trace = @ \o m.trace \o f.trace]
    /\ UNCHANGED <<hyprSig, display, hyprctl, activeWs, appHandle, visible,
                   cur, prev, server, watcher, extensions>>

(* The Ok(true) arm and the fall-through of the Err arm: window.hide(). *)
HideGeneric ==
    /\ last.fn = "hide_window"
    /\ last.step = "hide"
    /\ \E hidden \in BOOLEAN :
          /\ visible' = ~hidden
          /\ last' = [last EXCEPT !.step = "returned", !.done = TRUE,
                                  !.trace = Append(@, Call("hide", hidden))]
    /\ UNCHANGED <<hyprSig, display, hyprctl, activeWs, winWs, appHandle,
                   cur, prev, server, watcher, extensions>>

HideStepsNext ==
    \/ HideCheck
    \/ HideMove
    \/ HideGeneric
    \/ SwitchWorkspace

HideStepsSpec == HideStepsInit /\ [][HideStepsNext]_vars

ReadsOfActiveWorkspace ==
    Cardinality({ i \in DOMAIN last.trace : last.trace[i].call = "hyprctl activeworkspace" })

(* C26: in the visible-but-elsewhere path of hide_window the active        *)
(* workspace is read twice, by the check and again inside the move; the    *)
(* move dispatch names the workspace that is active when the move runs    *)
(* (the second read), also when the user has switched since the check,     *)
(* and a move reported as successful has named that workspace.             *)
C26_MovedToSecondRead ==
    (Returned("hide_window") /\ last.moveActive # None) =>
        /\ last.checked # None
        /\ ReadsOfActiveWorkspace = 2
        /\ last.target # None => last.target = last.moveActive
        /\ last.moved => last.target = last.moveActive

C26_Witness ==
    /\ Returned("hide_window")
    /\ last.checked = Some(1)
    /\ last.moveActive = Some(2)
    /\ last.target = Some(2)
    /\ last.moved
    /\ ReadsOfActiveWorkspace = 2

-----------------------------------------------------------------------------
ShownEvent == "emit rua://window-shown"

HiddenEvent == "emit rua://window-hidden"

-----------------------------------------------------------------------------
(* The window whose query_tree reply lists w. *)
ParentIn(tree, w) == CHOOSE p \in Windows : \E i \in DOMAIN tree[p] : tree[p][i] = w

(* The proper ancestors of w, up to the root. *)
RECURSIVE Ancestors(_, _)
Ancestors(tree, w) ==
    IF w = root THEN {}
    ELSE {ParentIn(tree, w)} \cup Ancestors(tree, ParentIn(tree, w))

(* The windows below which no query_tree on the way from the root fails.   *)
ReachableWindows == { w \in Windows : Ancestors(last.tree, w) \cap last.qfail = {} }

(* C28: get_all_windows ends on every window tree with a list that starts  *)
(* with the root and holds, each exactly once, the windows all of whose    *)
(* ancestors answered query_tree; a window whose query_tree fails is       *)
(* listed itself, only its descendants are left out, and the windows of    *)
(* the other branches are still listed; the find that enumerates returns   *)
(* nothing but a listed window.                                            *)
C28_RootAndReachableOnce ==
    Returned("find_window_by_class") =>
        /\ Len(Traversal) >= 1
        /\ Traversal[1] = root
        /\ { Traversal[i] : i \in DOMAIN Traversal } = ReachableWindows
        /\ \A i, j \in DOMAIN Traversal : Traversal[i] = Traversal[j] => i = j
        /\ last.qfail \cap ReachableWindows \subseteq { Traversal[i] : i \in DOMAIN Traversal }
        /\ last.result # None => \E i \in DOMAIN Traversal : Traversal[i] = last.result[1]

(* A failed query on a child of the root that has a child of its own: the  *)
(* window is listed, its child is left out.                                *)
C28_Witness ==
    /\ Returned("find_window_by_class")
    /\ \E w \in last.qfail :
          /\ w # root
          /\ last.tree[w] # <<>>
          /\ \E i \in DOMAIN Traversal : Traversal[i] = w
    /\ Len(Traversal) < MaxWindows

-----------------------------------------------------------------------------
(* The file watcher, step by step.  Its four commands are async Tauri      *)
(* commands, so two of them can be in progress at once; each section that  *)
(* holds the std Mutex of WATCHER_STATE is one step.  last holds where     *)
(* each thread is in watch_directory and what the step just taken          *)
(* returned.                                                               *)

Directories == {"/ext/a", "/ext/b"}

(* The path arguments: two directories, a file and a path that is absent.  *)
WatchArgs == Directories \cup {"/ext/a/main.js", "/ext/none"}

path_exists(p) == p # "/ext/none"

path_is_dir(p) == p \in Directories

NoReturn ==
    [by |-> 0, fn |-> "none", ok |-> TRUE, arg |-> "", flag |-> FALSE,
     path |-> None, replaced |-> None, message |-> ""]

WatcherInit ==
    /\ hyprSig = "unset"
    /\ display = "set"
    /\ hyprctl = "missing"
    /\ activeWs = 1
    /\ winWs = None
    /\ appHandle = TRUE
    /\ visible = FALSE
    /\ cur = NoRequest
    /\ prev = Summary(NoRequest)
    /\ server = NoServer
    /\ watcher = NoWatcher
    /\ extensions = NoExtensions
    /\ last = [fn |-> "file_watcher", done |-> FALSE,
               pc |-> [t \in Threads |-> "idle"],
               arg |-> [t \in Threads |-> ""],
               debouncer |-> [t \in Threads |-> None],
               ret |-> NoReturn]

stop_watching_internal_keeps_path(state) == [state EXCEPT !.debouncer = None]

(* stop_watching_internal under the lock: the state it leaves. *)
stop_watching_internal(state) ==
    [state EXCEPT !.debouncer = None, !.watched_path = None]

WatcherUnchanged ==
    UNCHANGED <<hyprSig, display, hyprctl, activeWs, winWs, appHandle,
                visible, cur, prev, server, extensions>>

(* watch_directory up to and with its stop_watching_internal. *)
WatchDirectory(t, p) ==
    /\ last.pc[t] = "idle"
    /\ IF ~path_exists(p)
       THEN /\ last' = [last EXCEPT !.ret =
                          [NoReturn EXCEPT !.by = t, !.fn = "watch_directory", !.ok = FALSE,
                                           !.arg = p, !.message = "Path does not exist"]]
            /\ UNCHANGED watcher
       ELSE IF ~path_is_dir(p)
       THEN /\ last' = [last EXCEPT !.ret =
                          [NoReturn EXCEPT !.by = t, !.fn = "watch_directory", !.ok = FALSE,
                                           !.arg = p, !.message = "Path is not a directory"]]
            /\ UNCHANGED watcher
       ELSE /\ watcher' = stop_watching_internal(watcher)
            /\ last' = [last EXCEPT !.pc[t] = "create", !.arg[t] = p, !.ret = NoReturn]
    /\ WatcherUnchanged

(* new_debouncer and watch: either can fail, and then the call returns     *)
(* with the state as the stop left it.                                     *)
CreateDebouncer(t) ==
    /\ last.pc[t] = "create"
    /\ \E outcome \in {"watching", "Failed to create file watcher", "Failed to watch directory"} :
          IF outcome = "watching"
          THEN last' = [last EXCEPT !.pc[t] = "store",
                                    !.debouncer[t] = Some([path |-> last.arg[t], by |-> t]),
                                    !.ret = NoReturn]
          ELSE last' = [last EXCEPT !.pc[t] = "idle", !.arg[t] = "",
                                    !.ret = [NoReturn EXCEPT !.by = t, !.fn = "watch_directory",
                                                             !.ok = FALSE, !.arg = last.arg[t],
                                                             !.message = outcome]]
    /\ UNCHANGED watcher
    /\ WatcherUnchanged

(* The last section of watch_directory: store the handle and the path. *)
StoreWatcher(t) ==
    /\ last.pc[t] = "store"
    /\ watcher' = [watcher EXCEPT !.debouncer = last.debouncer[t],
                                  !.watched_path = Some(last.arg[t])]
    /\ last' = [last EXCEPT !.pc[t] = "idle", !.arg[t] = "", !.debouncer[t] = None,
                            !.ret = [NoReturn EXCEPT !.by = t, !.fn = "watch_directory",
                                                     !.arg = last.arg[t],
                                                     !.replaced = watcher.watched_path]]
    /\ WatcherUnchanged

StopWatching(t) ==
    /\ last.pc[t] = "idle"
    /\ watcher' = stop_watching_internal(watcher)
    /\ last' = [last EXCEPT !.ret = [NoReturn EXCEPT !.by = t, !.fn = "stop_watching",
                                                     !.replaced = watcher.watched_path]]
    /\ WatcherUnchanged

IsWatching(t) ==
    /\ last.pc[t] = "idle"
    /\ last' = [last EXCEPT !.ret = [NoReturn EXCEPT !.by = t, !.fn = "is_watching",
                                                     !.flag = (watcher.debouncer # None)]]
    /\ UNCHANGED watcher
    /\ WatcherUnchanged

(* The stored PathBuf was made from a String, so to_string_lossy gives     *)
(* that String back.                                                       *)
GetWatchedPath(t) ==
    /\ last.pc[t] = "idle"
    /\ last' = [last EXCEPT !.ret = [NoReturn EXCEPT !.by = t, !.fn = "get_watched_path",
                                                     !.path = watcher.watched_path]]
    /\ UNCHANGED watcher
    /\ WatcherUnchanged

WatcherNext ==
    \E t \in Threads :
        \/ \E p \in WatchArgs : WatchDirectory(t, p)
        \/ CreateDebouncer(t)
        \/ StoreWatcher(t)
        \/ StopWatching(t)
        \/ IsWatching(t)
        \/ GetWatchedPath(t)

WatcherSpec == WatcherInit /\ [][WatcherNext]_vars

(* C29: whatever calls of the four watcher commands have run and however   *)
(* they interleaved, the stored handle and the stored path are both        *)
(* present or both absent and the handle watches the stored path;          *)
(* is_watching answers true exactly when a path is stored and              *)
(* get_watched_path answers the stored path; and when watch_directory(p)   *)
(* returns Ok, p is the stored path and the handle it made is the one      *)
(* stored, whatever was stored before.                                     *)
C29_HandleAndPathTogether ==
    last.fn = "file_watcher" =>
        /\ (watcher.debouncer # None) <=> (watcher.watched_path # None)
        /\ Len(watcher.debouncer) <= 1
        /\ watcher.debouncer # None =>
              watcher.debouncer[1].path = watcher.watched_path[1]
        /\ last.ret.fn = "is_watching" =>
              last.ret.flag = (watcher.watched_path # None)
        /\ last.ret.fn = "get_watched_path" =>
              /\ last.ret.path = watcher.watched_path
              /\ (last.ret.path # None) <=> (watcher.debouncer # None)
        /\ (last.ret.fn = "watch_directory" /\ last.ret.ok) =>
              /\ watcher.watched_path = Some(last.ret.arg)
              /\ watcher.debouncer = Some([path |-> last.ret.arg, by |-> last.ret.by])

(* A watch_directory that returns Ok while the other thread's watch of     *)
(* the other directory, stored after this call's stop, is in the state.    *)
C29_Witness ==
    /\ last.fn = "file_watcher"
    /\ last.ret.fn = "watch_directory"
    /\ last.ret.ok
    /\ last.ret.arg = "/ext/a"
    /\ last.ret.replaced = Some("/ext/b")
    /\ watcher.watched_path = Some("/ext/a")

-----------------------------------------------------------------------------
(* The extension commands on the extensions folder.  registry.json is      *)
(* readable (absent counts: it loads as the empty registry) or not, and    *)
(* holds for an id no entry, an enabled entry or a disabled one; the       *)
(* directory of an id is absent, holds a manifest.json that parses, or     *)
(* does not.  Directory names are the manifest ids, as install makes them. *)

EntryStates == {"none", "enabled", "disabled"}

DirStates == {"none", "valid", "no manifest"}

ExtensionFolders ==
    { [readable |-> r, registry |-> reg, dirs |-> ds]
      : r \in BOOLEAN, reg \in [ExtIds -> EntryStates], ds \in [ExtIds -> DirStates] }

(* save_registry: the file written, or a write that fails and leaves the   *)
(* old file or a damaged one.                                              *)
save_registry(ext, registry) ==
    { [ok |-> TRUE, ext |-> [ext EXCEPT !.registry = registry]],
      [ok |-> FALSE, ext |-> ext],
      [ok |-> FALSE, ext |-> [ext EXCEPT !.readable = FALSE]] }

NoInfo == [listed |-> FALSE, enabled |-> FALSE, loaded |-> FALSE, error |-> FALSE]

NoInfos == [i \in ExtIds |-> NoInfo]

(* get_extensions: Err when the registry does not load, else one           *)
(* ExtensionInfo per directory.                                            *)
get_extensions(ext) ==
    IF ~ext.readable
    THEN [ok |-> FALSE, infos |-> NoInfos]
    ELSE [ok |-> TRUE,
          infos |-> [i \in ExtIds |->
              IF ext.dirs[i] = "none" THEN NoInfo
              ELSE IF ext.dirs[i] = "valid"
              THEN LET enabled == IF ext.registry[i] = "none" THEN TRUE
                                  ELSE ext.registry[i] = "enabled"
                   IN  [listed |-> TRUE, enabled |-> enabled, loaded |-> enabled,
                        error |-> FALSE]
              ELSE [listed |-> TRUE, enabled |-> FALSE, loaded |-> FALSE,
                    error |-> TRUE]]]

enable_extension(ext, id) ==
    IF ~ext.readable THEN { [ok |-> FALSE, ext |-> ext] }
    ELSE save_registry(ext, [ext.registry EXCEPT ![id] = "enabled"])

disable_extension(ext, id) ==
    IF ~ext.readable THEN { [ok |-> FALSE, ext |-> ext] }
    ELSE IF ext.registry[id] # "none"
    THEN save_registry(ext, [ext.registry EXCEPT ![id] = "disabled"])
    ELSE { [ok |-> TRUE, ext |-> ext] }

(* What the source path of an install holds. *)
Sources == {"missing", "no manifest", "invalid manifest", "valid"}

(* install_extension from a local path whose manifest names id. *)
install_extension(ext, id, source) ==
    IF source # "valid" THEN { [ok |-> FALSE, ext |-> ext] }
    ELSE LET copied == [ext EXCEPT !.dirs[id] = "valid"]
         IN  { [ok |-> FALSE, ext |-> ext] }
             \cup { [ok |-> FALSE, ext |-> [ext EXCEPT !.dirs[id] = d]]
                    : d \in {"none", "no manifest"} }
             \cup (IF ~ext.readable THEN { [ok |-> FALSE, ext |-> copied] }
                   ELSE save_registry(copied, [ext.registry EXCEPT ![id] = "enabled"]))

(* uninstall_extension, with the directory of id or another path given. *)
uninstall_extension(ext, id, own) ==
    LET removed == IF own THEN [ext EXCEPT !.dirs[id] = "none"] ELSE ext
    IN  { [ok |-> FALSE, ext |-> ext] }
        \cup (IF ~ext.readable THEN { [ok |-> FALSE, ext |-> removed] }
              ELSE { [ok |-> r.ok, ext |-> r.ext]
                     : r \in save_registry(removed, [ext.registry EXCEPT ![id] = "none"]) })

ExtensionsInit ==
    /\ hyprSig = "unset"
    /\ display = "set"
    /\ hyprctl = "missing"
    /\ activeWs = 1
    /\ winWs = None
    /\ appHandle = TRUE
    /\ visible = FALSE
    /\ cur = NoRequest
    /\ prev = Summary(NoRequest)
    /\ server = NoServer
    /\ watcher = NoWatcher
    /\ extensions \in ExtensionFolders
    /\ last = [fn |-> "extensions", done |-> FALSE, disabled |-> {},
               ret |-> [fn |-> "none", id |-> "", ok |-> TRUE, infos |-> NoInfos]]

ExtensionsUnchanged ==
    UNCHANGED <<hyprSig, display, hyprctl, activeWs, winWs, appHandle,
                visible, cur, prev, server, watcher>>

(* last.disabled: the ids whose directory is present and for which         *)
(* disable_extension has returned Ok with no enable, install or uninstall  *)
(* of the id called since.                                                 *)
DisableExtension(id) ==
    /\ last.fn = "extensions"
    /\ \E r \in disable_extension(extensions, id) :
          /\ extensions' = r.ext
          /\ last' = [last EXCEPT
                        !.disabled = IF r.ok /\ extensions.dirs[id] # "none"
                                     THEN @ \cup {id} ELSE @,
                        !.ret = [fn |-> "disable_extension", id |-> id, ok |-> r.ok,
                                 infos |-> NoInfos]]
    /\ ExtensionsUnchanged

EnableExtension(id) ==
    /\ last.fn = "extensions"
    /\ \E r \in enable_extension(extensions, id) :
          /\ extensions' = r.ext
          /\ last' = [last EXCEPT
                        !.disabled = @ \ {id},
                        !.ret = [fn |-> "enable_extension", id |-> id, ok |-> r.ok,
                                 infos |-> NoInfos]]
    /\ ExtensionsUnchanged

InstallExtension(id) ==
    /\ last.fn = "extensions"
    /\ \E source \in Sources :
       \E r \in install_extension(extensions, id, source) :
          /\ extensions' = r.ext
          /\ last' = [last EXCEPT
                        !.disabled = @ \ {id},
                        !.ret = [fn |-> "install_extension", id |-> id, ok |-> r.ok,
                                 infos |-> NoInfos]]
    /\ ExtensionsUnchanged

UninstallExtension(id) ==
    /\ last.fn = "extensions"
    /\ \E own \in BOOLEAN :
       \E r \in uninstall_extension(extensions, id, own) :
          /\ extensions' = r.ext
          /\ last' = [last EXCEPT
                        !.disabled = @ \ {id},
                        !.ret = [fn |-> "uninstall_extension", id |-> id, ok |-> r.ok,
                                 infos |-> NoInfos]]
    /\ ExtensionsUnchanged

GetExtensions ==
    /\ last.fn = "extensions"
    /\ LET r == get_extensions(extensions)
       IN  last' = [last EXCEPT
                      !.ret = [fn |-> "get_extensions", id |-> "", ok |-> r.ok,
                               infos |-> r.infos]]
    /\ UNCHANGED extensions
    /\ ExtensionsUnchanged

ExtensionsNext ==
    \/ \E id \in ExtIds :
          \/ DisableExtension(id)
          \/ EnableExtension(id)
          \/ InstallExtension(id)
          \/ UninstallExtension(id)
    \/ GetExtensions

ExtensionsSpec == ExtensionsInit /\ [][ExtensionsNext]_vars

(* C30 as stated: once disable_extension(id) has returned Ok for an        *)
(* extension whose directory is in the extensions folder, and until        *)
(* enable_extension(id) or an install of id is called, get_extensions      *)
(* lists the extension with enabled = false and loaded = false, whether    *)
(* or not the registry had an entry for id.                                *)
C30_AsStated ==
    (last.fn = "extensions" /\ last.ret.fn = "get_extensions" /\ last.ret.ok) =>
        \A id \in last.disabled :
            /\ last.ret.infos[id].listed
            /\ ~last.ret.infos[id].enabled
            /\ ~last.ret.infos[id].loaded
=============================================================================
